---- MODULE Spec2Model ----
(***************************************************************************)
(* Rating aggregation and consistency engine of the USACO-Rating backend   *)
(* (src/backend/datastore.py, src/backend/routes/api.py, routes/admin.py). *)
(*                                                                         *)
(* Numbers.  Ratings are integers (Elo points) and arithmetic is exact:    *)
(* a mean is kept as the fraction <<sum, count>>, a standard deviation as  *)
(* the fraction under its square root, a median of an even-sized list as   *)
(* <<a + b, 2>>.  Floating-point rounding is therefore outside the model.  *)
(* An optional value (Python None) is the empty tuple, a present value v   *)
(* is <<v>>.                                                               *)
(***************************************************************************)
EXTENDS Integers, Sequences, FiniteSets, TLC

None == <<>>
Some(v) == <<v>>

Max(a, b) == IF a >= b THEN a ELSE b

\* Equality of two fractions <<n, d>> with d > 0.
FracEq(f, g) == f[1] * g[2] = g[1] * f[2]

RECURSIVE Gcd(_, _)
Gcd(a, b) == IF b = 0 THEN a ELSE Gcd(b, a % b)

Lcm(a, b) == (a \div Gcd(a, b)) * b

\* Equality of two optional fractions.
OptFracEq(x, y) ==
    IF x = None \/ y = None THEN x = y ELSE FracEq(x[1], y[1])

RECURSIVE SumSeq(_)
SumSeq(s) == IF s = <<>> THEN 0 ELSE Head(s) + SumSeq(Tail(s))

---------------------------------------------------------------------------
(* Bounds of the model and the inputs the handlers are exercised with.     *)

\* The number of requests served in a behaviour.
MaxRequests == 5

Users == {1, 2}
\* The forms submitted to /api/vote:
\* <<thinking, implementation, quality, comment, public>>.
ValidVoteInputs ==
    {<<1800, 2000, None, "", FALSE>>, <<2000, 2000, Some(5), "neat", TRUE>>}
InvalidVoteInputs ==
    {<<799, 2000, None, "", FALSE>>, <<1800, 3501, None, "", FALSE>>,
     <<1800, 2000, Some(6), "", FALSE>>}
VoteInputs == ValidVoteInputs \cup InvalidVoteInputs

Metrics == {"thinking", "implementation", "overall", "quality"}

\* The names users register under and the legacy files know them by, with
\* str.lower() on them.
Usernames == {"Alice", "alice", "bob"}
Lower(name) == IF name = "Alice" THEN "alice" ELSE name

\* The legacy files an import reads: the usernames of user.json in the order
\* of the file, and for each problem title of votes.json its votes.  A vote
\* may name its voter in another case, a voter the users file does not know,
\* or none, and carries whatever numbers the file holds.
LegacyTitle == "240101 Fence"
LegacySources ==
    {[users |-> <<"Alice", "bob">>,
      votes |-> <<[title |-> LegacyTitle,
                   votes |-> <<[voter |-> "alice", thinking |-> 1800, implementing |-> 2000,
                                quality |-> None],
                               [voter |-> "bob", thinking |-> 2000, implementing |-> 2000,
                                quality |-> Some(5)]>>]>>],
     [users |-> <<"alice">>,
      votes |-> <<[title |-> LegacyTitle,
                   votes |-> <<[voter |-> "Alice", thinking |-> 1800, implementing |-> 2000,
                                quality |-> None],
                               [voter |-> "alice", thinking |-> 2000, implementing |-> 2000,
                                quality |-> Some(5)],
                               [voter |-> "bob", thinking |-> 2000, implementing |-> 2000,
                                quality |-> None],
                               [voter |-> "", thinking |-> 1800, implementing |-> 2000,
                                quality |-> None]>>]>>],
     [users |-> <<"bob">>,
      votes |-> <<[title |-> LegacyTitle,
                   votes |-> <<[voter |-> "bob", thinking |-> 500, implementing |-> 2000,
                                quality |-> Some(9)]>>]>>]}

\* The title an administrator gives a problem and the names given to courses.
CustomTitle == "Custom"
CourseNames == {"Bronze", "Silver"}

---------------------------------------------------------------------------
(* Numeric solver.  Probabilities are fixed-point numbers with SCALE       *)
(* standing for 1.0; Pow10Neg(d) is 10^(-d/400) for an integer d >= 0,     *)
(* composed from the tables of 10^(-a/4), 10^(-b/40) and 10^(-c/400).      *)

SCALE == 10000

Pow100 == <<10000, 5623, 3162, 1778>>
Pow10 == <<10000, 9441, 8913, 8414, 7943, 7499, 7079, 6683, 6310, 5957>>
Pow1 == <<10000, 9943, 9886, 9829, 9772, 9716, 9661, 9605, 9550, 9495>>

RECURSIVE ShiftDecimal(_, _)
ShiftDecimal(v, q) == IF q = 0 \/ v = 0 THEN v ELSE ShiftDecimal(v \div 10, q - 1)

Pow10Neg(d) ==
    LET q == d \div 400
        r == d % 400
        a == r \div 100
        b == (r \div 10) % 10
        c == r % 10
        v == (((Pow100[a + 1] * Pow10[b + 1]) \div SCALE) * Pow1[c + 1]) \div SCALE
    IN  ShiftDecimal(v, q)

\* 1.0 / (1 + 10 ** ((b - a) / 400.0))
elo_win_probability(a, b) ==
    IF b - a > 0
    THEN LET n == Pow10Neg(b - a) IN (SCALE * n) \div (SCALE + n)
    ELSE (SCALE * SCALE) \div (SCALE + Pow10Neg(a - b))

\* The interval is halved until it is no wider than eps, one unit of the
\* model's resolution.
eps == 1

\* A bisection towards the rating whose two win probabilities average one half.
RECURSIVE BisectMean(_, _, _, _)
BisectMean(left, right, thinking, implementation) ==
    IF ~(right - left > eps) THEN left
    ELSE LET mid == (left + right) \div 2 IN
         IF elo_win_probability(mid, thinking) + elo_win_probability(mid, implementation) > SCALE
         THEN BisectMean(left, mid, thinking, implementation)
         ELSE BisectMean(mid, right, thinking, implementation)

\* A bisection that stops as soon as the interval is no wider than 16 units.
RECURSIVE BisectCoarse(_, _, _, _)
BisectCoarse(left, right, thinking, implementation) ==
    IF ~(right - left > 16 * eps) THEN left
    ELSE LET mid == (left + right) \div 2 IN
         IF elo_win_probability(mid, thinking) * elo_win_probability(mid, implementation)
                > (SCALE * SCALE) \div 2
         THEN BisectCoarse(left, mid, thinking, implementation)
         ELSE BisectCoarse(mid, right, thinking, implementation)

RECURSIVE Bisect(_, _, _, _)
Bisect(left, right, thinking, implementation) ==
    IF ~(right - left > eps) THEN left
    ELSE LET mid == (left + right) \div 2 IN
         IF elo_win_probability(mid, thinking) * elo_win_probability(mid, implementation)
                > (SCALE * SCALE) \div 2
         THEN Bisect(left, mid, thinking, implementation)
         ELSE Bisect(mid, right, thinking, implementation)

\* The ratings that occur in the submitted forms, and the solver's result for
\* each pair of them, evaluated once.
SubmittedRatings == UNION {{form[1], form[2]} : form \in VoteInputs}

OverallTable ==
    [thinking \in SubmittedRatings |->
        [implementation \in SubmittedRatings |-> Bisect(1, 8000, thinking, implementation)]]

\* A solver that rates the harder of the two parts against the gap between
\* the two.
calc_overall_of_gap(thinking, implementation) ==
    Bisect(1, 8000, Max(thinking, implementation),
           2 * Max(thinking, implementation) - (thinking + implementation) + 800)

calc_overall(thinking, implementation) ==
    IF thinking \in SubmittedRatings /\ implementation \in SubmittedRatings
    THEN OverallTable[thinking][implementation]
    ELSE Bisect(1, 8000, thinking, implementation)

---------------------------------------------------------------------------
(* Median of a list of numbers.                                            *)

median(values) ==
    IF values = <<>> THEN None
    ELSE LET sorted_vals == SortSeq(values, LAMBDA x, y : x < y)
             n == Len(sorted_vals)
             mid == n \div 2
         IN  IF n % 2 = 1
             THEN Some(<<sorted_vals[mid + 1], 1>>)
             ELSE Some(<<sorted_vals[mid] + sorted_vals[mid + 1], 2>>)

---------------------------------------------------------------------------
(* State.                                                                  *)
(*   store        the in-memory snapshot (self.store): votes, reports, the *)
(*                users, the id counters, the custom courses (id -> name)  *)
(*                and the persisted payloads of the custom problems        *)
(*   problem_map  the catalog: problem id -> problem, with its published   *)
(*                count/mean/stddev/median per metric and its aggregate    *)
(*                blocks (_stats)                                          *)
(*   problems_by_type  course id -> the ids of the problems listed in it   *)
(*   disk         store.json: the snapshot last written to it (payload),   *)
(*                and whether the file holds the whole document (written)  *)
(*                or, its writer having truncated it and not yet finished, *)
(*                nothing or a prefix of the document                      *)
(*   stale        the test of _ensure_store_fresh: the file's modification *)
(*                time is newer than the one this process recorded         *)
(*   last         the operation performed last and what it returned to its *)
(*                caller                                                   *)
(*   requests     the number of requests served so far                     *)
(*   running      the request a second worker thread of this process is in *)
(*                the middle of, None when there is none                   *)

VARIABLES store, problem_map, problems_by_type, disk, stale, last, requests, running

vars == <<store, problem_map, problems_by_type, disk, stale, last, requests, running>>

\* The data store as one value: the object the methods below work on, with
\* the reading of the clock (_now_ts) during the request it is serving, which
\* is taken to be the ordinal of the request.
Cur ==
    [store |-> store, problem_map |-> problem_map, problems_by_type |-> problems_by_type,
     disk |-> disk, stale |-> stale, now |-> requests + 1]

Commit(D) ==
    /\ store' = D.store
    /\ problem_map' = D.problem_map
    /\ problems_by_type' = D.problems_by_type
    /\ disk' = D.disk
    /\ stale' = D.stale

\* One more request is taken up.
Accept ==
    /\ requests < MaxRequests
    /\ requests' = requests + 1

\* One more request is served from its start to its end, no other request
\* being in its middle.
Serve ==
    /\ Accept
    /\ running = None
    /\ UNCHANGED running

DEFAULT_STORE_PAYLOAD ==
    [votes |-> <<>>, reports |-> <<>>,
     next_vote_id |-> 1, next_report_id |-> 1, next_problem_id |-> 1, next_type_id |-> 1,
     custom_types |-> <<>>, custom_problems |-> <<>>,
     users |-> <<>>, next_user_id |-> 1]

Min(S) == CHOOSE x \in S : \A y \in S : x <= y

---------------------------------------------------------------------------
(* Aggregate blocks.                                                       *)

\* Seeds the aggregate blocks of a problem from its published summary.
\* _init_problem_stats that leaves the published count, mean and stddev as
\* they were persisted.
init_problem_stats_keep_summary(item) ==
    LET count(m) == item.cnt[m]
        avg(m) == IF item.avg[m] = None THEN <<0, 1>> ELSE item.avg[m][1]
        sd(m) == IF item.sd[m] = None THEN <<0, 1>> ELSE item.sd[m][1]
        sum_val(m) == (avg(m)[1] * count(m)) \div avg(m)[2]
        \* (avg * avg + sd * sd) * count, over the common denominator of the two
        \* squares, the whole part and the remainder multiplied separately.
        den(m) == Lcm(sd(m)[2], avg(m)[2] * avg(m)[2])
        squares(m) == sd(m)[1] * (den(m) \div sd(m)[2])
                          + avg(m)[1] * avg(m)[1] * (den(m) \div (avg(m)[2] * avg(m)[2]))
        sum_sq(m) ==
            IF count(m) # 0
            THEN (squares(m) \div den(m)) * count(m)
                     + ((squares(m) % den(m)) * count(m)) \div den(m)
            ELSE 0
    IN  [item EXCEPT
            !.stats = [m \in Metrics |->
                          [count |-> count(m), sum |-> sum_val(m), sum_sq |-> sum_sq(m)]]]

init_problem_stats(item) ==
    LET count(m) == item.cnt[m]
        avg(m) == IF item.avg[m] = None THEN <<0, 1>> ELSE item.avg[m][1]
        sd(m) == IF item.sd[m] = None THEN <<0, 1>> ELSE item.sd[m][1]
        sum_val(m) == (avg(m)[1] * count(m)) \div avg(m)[2]
        \* (avg * avg + sd * sd) * count, over the common denominator of the two
        \* squares, the whole part and the remainder multiplied separately.
        den(m) == Lcm(sd(m)[2], avg(m)[2] * avg(m)[2])
        squares(m) == sd(m)[1] * (den(m) \div sd(m)[2])
                          + avg(m)[1] * avg(m)[1] * (den(m) \div (avg(m)[2] * avg(m)[2]))
        sum_sq(m) ==
            IF count(m) # 0
            THEN (squares(m) \div den(m)) * count(m)
                     + ((squares(m) % den(m)) * count(m)) \div den(m)
            ELSE 0
    IN  [item EXCEPT
            !.stats = [m \in Metrics |->
                          [count |-> count(m), sum |-> sum_val(m), sum_sq |-> sum_sq(m)]],
            !.cnt = [m \in Metrics |-> IF count(m) <= 0 THEN 0 ELSE count(m)],
            !.avg = [m \in Metrics |-> IF count(m) <= 0 THEN None ELSE Some(avg(m))],
            !.sd = [m \in Metrics |-> IF count(m) <= 0 THEN None ELSE Some(sd(m))]]

NoMedians == [m \in Metrics |-> None]

\* The four values of a vote, by metric.
VoteValues(vote) == [m \in Metrics |-> vote[m]]

\* Python truth of an optional number: neither None nor zero.
Truthy(x) == x # None /\ x[1] # 0

\* The values whose contribution is reversed when a vote is edited or removed:
\* overall=vote.get("overall") or vote.get("difficulty").
PriorValues(vote) ==
    [VoteValues(vote) EXCEPT
        !["overall"] = IF Truthy(vote.overall) THEN vote.overall ELSE vote.difficulty]

update_problem_medians(D, problem_id) ==
    IF problem_id \notin DOMAIN D.problem_map THEN D
    ELSE LET votes == SelectSeq(D.store.votes,
                               LAMBDA vote : vote.problem_id = problem_id /\ ~vote.deleted)
             values(m) ==
                 LET present == SelectSeq(votes, LAMBDA v : VoteValues(v)[m] # None)
                 IN  [i \in 1..Len(present) |-> VoteValues(present[i])[m][1]]
         IN  IF votes = <<>>
             THEN [D EXCEPT !.problem_map[problem_id].median = NoMedians]
             ELSE [D EXCEPT !.problem_map[problem_id].median =
                                [m \in Metrics |-> median(values(m))]]

\* The end of update_metric: the count, mean and standard deviation published
\* for the metric are derived from its aggregate block.
publish_metric(problem, metric, block) ==
    IF block.count <= 0
    THEN [problem EXCEPT !.cnt[metric] = 0, !.avg[metric] = None, !.sd[metric] = None,
                         !.stats[metric] = [count |-> block.count, sum |-> 0, sum_sq |-> 0]]
    ELSE [problem EXCEPT
             !.cnt[metric] = block.count,
             !.avg[metric] = Some(<<block.sum, block.count>>),
             !.sd[metric] =
                 Some(<<Max(0, block.sum_sq * block.count - block.sum * block.sum),
                        block.count * block.count>>),
             !.stats[metric] = block]

\* update_metric with a removal that decrements the count and forgets the sums.
update_metric_stale_sum(problem, metric, value, remove) ==
    IF value = None THEN problem
    ELSE LET block == problem.stats[metric]
             v == value[1]
             adjusted ==
                 IF remove
                 THEN [block EXCEPT !.count = Max(0, @ - 1)]
                 ELSE [count |-> block.count + 1, sum |-> block.sum + v,
                       sum_sq |-> block.sum_sq + v * v]
         IN  publish_metric(problem, metric, adjusted)

\* update_metric with a removal that leaves the sum of squares as it was.
update_metric_keep_sum_sq(problem, metric, value, remove) ==
    IF value = None THEN problem
    ELSE LET block == problem.stats[metric]
             v == value[1]
             adjusted ==
                 IF remove
                 THEN LET c == Max(0, block.count - 1) IN
                      IF c <= 0
                      THEN [count |-> c, sum |-> 0, sum_sq |-> 0]
                      ELSE [count |-> c, sum |-> block.sum - v, sum_sq |-> block.sum_sq]
                 ELSE [count |-> block.count + 1, sum |-> block.sum + v,
                       sum_sq |-> block.sum_sq + v * v]
         IN  publish_metric(problem, metric, adjusted)

\* update_metric with a removal that takes one off the count wherever it stands.
update_metric_no_floor(problem, metric, value, remove) ==
    IF value = None THEN problem
    ELSE LET block == problem.stats[metric]
             v == value[1]
             adjusted ==
                 IF remove
                 THEN [count |-> block.count - 1, sum |-> block.sum - v,
                       sum_sq |-> block.sum_sq - v * v]
                 ELSE [count |-> block.count + 1, sum |-> block.sum + v,
                       sum_sq |-> block.sum_sq + v * v]
         IN  [problem EXCEPT
                 !.cnt[metric] = Max(0, adjusted.count),
                 !.avg[metric] = IF adjusted.count <= 0 THEN None
                                 ELSE Some(<<adjusted.sum, adjusted.count>>),
                 !.sd[metric] = IF adjusted.count <= 0 THEN None
                                ELSE Some(<<Max(0, adjusted.sum_sq * adjusted.count
                                                      - adjusted.sum * adjusted.sum),
                                            adjusted.count * adjusted.count>>),
                 !.stats[metric] = adjusted]

update_metric(problem, metric, value, remove) ==
    IF value = None THEN problem
    ELSE LET block == problem.stats[metric]
             v == value[1]
             adjusted ==
                 IF remove
                 THEN LET c == Max(0, block.count - 1) IN
                      IF c <= 0
                      THEN [count |-> c, sum |-> 0, sum_sq |-> 0]
                      ELSE [count |-> c, sum |-> block.sum - v, sum_sq |-> block.sum_sq - v * v]
                 ELSE [count |-> block.count + 1, sum |-> block.sum + v,
                       sum_sq |-> block.sum_sq + v * v]
         IN  publish_metric(problem, metric, [adjusted EXCEPT !.sum_sq = Max(0, @)])

adjust_problem_stats(D, problem_id, values, remove) ==
    IF problem_id \notin DOMAIN D.problem_map THEN D
    ELSE LET p0 == D.problem_map[problem_id]
             p1 == update_metric(p0, "thinking", values["thinking"], remove)
             p2 == update_metric(p1, "implementation", values["implementation"], remove)
             p3 == update_metric(p2, "overall", values["overall"], remove)
             p4 == update_metric(p3, "quality", values["quality"], remove)
         IN  update_problem_medians([D EXCEPT !.problem_map[problem_id] = p4], problem_id)

---------------------------------------------------------------------------
(* Snapshot store.                                                         *)

\* json.dumps(self.store).  An entry of store["custom_problems"] is None while
\* it is the very object the catalog holds (a problem created by this process
\* since it last loaded the file), and is written with the catalog's current
\* summary; an entry read from the file is the payload as it was read, of
\* which the catalog holds a copy.
Snapshot(D) ==
    [D.store EXCEPT
        !.custom_problems =
            [pid \in DOMAIN @ |-> IF @[pid] = None THEN D.problem_map[pid] ELSE @[pid][1]]]

\* The file holding the whole document of a snapshot.
Written(payload) == [written |-> TRUE, payload |-> payload]

\* _save_store that leaves the file for later.
save_store_deferred(D) == D

save_store(D) == [D EXCEPT !.disk = Written(Snapshot(D)), !.stale = FALSE]

\* _load_json_file: a file that is empty or does not parse is replaced by the
\* default payload, which is also what the caller gets.
load_json_file(D, default_payload) ==
    IF D.disk.written
    THEN [D |-> D, data |-> D.disk.payload]
    ELSE [D |-> [D EXCEPT !.disk = Written(default_payload)], data |-> default_payload]

reset_problem_stats(D) ==
    [D EXCEPT !.problem_map =
        [pid \in DOMAIN D.problem_map |->
            [init_problem_stats(D.problem_map[pid]) EXCEPT !.median = NoMedians]]]

RECURSIVE AddVotes(_, _)
AddVotes(D, i) ==
    IF i > Len(D.store.votes) THEN D
    ELSE LET vote == D.store.votes[i] IN
         IF vote.deleted \/ vote.problem_id = 0
         THEN AddVotes(D, i + 1)
         ELSE AddVotes(adjust_problem_stats(D, vote.problem_id, VoteValues(vote), FALSE), i + 1)

rebuild_problem_stats(D) == AddVotes(reset_problem_stats(D), 1)

\* The normalisation of the persisted reports in _load_store: a report whose id
\* is not positive or was seen already gets the next report id, and a report
\* repeating a (vote, reporter) pair is dropped.
RECURSIVE NormaliseReports(_, _, _, _, _, _)
NormaliseReports(reports, vote_owner_map, next_report_id, seen_report_ids, seen_pairs, out) ==
    IF reports = <<>>
    THEN [reports |-> out, next_report_id |-> next_report_id,
          seen_report_ids |-> seen_report_ids]
    ELSE LET raw == Head(reports)
             fresh == raw.id <= 0 \/ raw.id \in seen_report_ids
             rid_val == IF fresh THEN next_report_id ELSE raw.id
             next_id == IF fresh THEN next_report_id + 1 ELSE next_report_id
             reporter_id == IF raw.user_id # None /\ raw.user_id[1] <= 0
                            THEN None ELSE raw.user_id
             target == IF raw.target_user_id = None /\ raw.vote_id \in DOMAIN vote_owner_map
                       THEN Some(vote_owner_map[raw.vote_id])
                       ELSE raw.target_user_id
             report == [id |-> rid_val, vote_id |-> raw.vote_id, user_id |-> reporter_id,
                        target_user_id |-> IF Truthy(target) THEN target ELSE None]
             pair == <<raw.vote_id, reporter_id>>
             paired == reporter_id # None /\ raw.vote_id # 0
         IN  IF paired /\ pair \in seen_pairs
             THEN NormaliseReports(Tail(reports), vote_owner_map, next_id,
                                   seen_report_ids \cup {rid_val}, seen_pairs, out)
             ELSE NormaliseReports(Tail(reports), vote_owner_map, next_id,
                                   seen_report_ids \cup {rid_val},
                                   IF paired THEN seen_pairs \cup {pair} ELSE seen_pairs,
                                   Append(out, report))

MaxOf(S) == CHOOSE x \in S : \A y \in S : x >= y

\* _load_store: the store is read from the file, the custom problems are
\* recreated from their persisted payloads and the aggregates rebuilt.
load_store(D0) ==
    LET loaded == load_json_file(D0, DEFAULT_STORE_PAYLOAD)
        D == loaded.D
        file == loaded.data
        votes == file.votes
        voted == {i \in 1..Len(votes) : votes[i].id > 0}
        vote_owner_map ==
            [vid \in {votes[i].id : i \in voted} |->
                votes[MaxOf({i \in voted : votes[i].id = vid})].user_id]
        norm == NormaliseReports(file.reports, vote_owner_map,
                                 Max(1, file.next_report_id), {}, {}, <<>>)
        max_report_id == IF norm.seen_report_ids = {} THEN 0 ELSE MaxOf(norm.seen_report_ids)
        next_report_id == IF norm.next_report_id <= max_report_id
                          THEN max_report_id + 1 ELSE norm.next_report_id
        next_type == MaxOf(DOMAIN file.custom_types \cup {0}) + 1
        new_store ==
            [votes |-> votes,
             reports |-> norm.reports,
             next_vote_id |-> file.next_vote_id,
             next_report_id |-> Max(file.next_report_id, next_report_id),
             next_problem_id |-> Max(file.next_problem_id, 1),
             next_type_id |-> Max(file.next_type_id, next_type),
             custom_types |-> file.custom_types,
             users |-> file.users,
             next_user_id |-> file.next_user_id,
             custom_problems |-> [pid \in DOMAIN file.custom_problems |->
                                     Some(file.custom_problems[pid])]]
        problems == [pid \in DOMAIN file.custom_problems |->
                        init_problem_stats(file.custom_problems[pid])]
        buckets == [t \in (DOMAIN D.problems_by_type \ DOMAIN D.store.custom_types)
                           \cup DOMAIN file.custom_types
                           \cup {problems[pid].type : pid \in DOMAIN problems} |->
                       {pid \in DOMAIN problems : problems[pid].type = t}]
    IN  [rebuild_problem_stats(
            [D EXCEPT !.store = new_store, !.problem_map = problems,
                      !.problems_by_type = buckets])
         EXCEPT !.stale = FALSE]

\* _ensure_store_fresh that loads the file whatever its modification time.
ensure_store_fresh_always(D) == load_store(D)

ensure_store_fresh(D) == IF D.stale THEN load_store(D) ELSE D

---------------------------------------------------------------------------
(* Vote ledger.                                                            *)

\* upsert_vote that never looks for an existing row.
upsert_vote_always_insert(D, user_id, problem_id, thinking, implementation, quality, comment, make_public) ==
    LET with_overall(overall_val) ==
            LET new_values == [thinking |-> Some(thinking), implementation |-> Some(implementation),
                               overall |-> Some(overall_val), quality |-> quality]
                vote == [id |-> D.store.next_vote_id, user_id |-> user_id, problem_id |-> problem_id,
                         thinking |-> Some(thinking), implementation |-> Some(implementation),
                         overall |-> Some(overall_val), difficulty |-> Some(overall_val),
                         quality |-> quality, comment |-> comment, public |-> make_public, deleted |-> FALSE, created_at |-> D.now, updated_at |-> D.now]
                D1 == [D EXCEPT !.store.next_vote_id = @ + 1, !.store.votes = Append(@, vote)]
                D2 == adjust_problem_stats(D1, problem_id, new_values, FALSE)
            IN  [D |-> save_store(D2), vote |-> vote, existing |-> FALSE]
    IN  with_overall(calc_overall(thinking, implementation))

\* upsert_vote that overwrites an existing row without reversing its contribution.
upsert_vote_no_reversal(D, user_id, problem_id, thinking, implementation, quality, comment, make_public) ==
    LET with_overall(overall_val) ==
            LET votes == D.store.votes
                matches == {i \in 1..Len(votes) :
                               votes[i].user_id = user_id /\ votes[i].problem_id = problem_id}
                new_values == [thinking |-> Some(thinking), implementation |-> Some(implementation),
                               overall |-> Some(overall_val), quality |-> quality]
            IN  IF matches # {}
                THEN LET i == Min(matches)
                         updated == [votes[i] EXCEPT
                                        !.thinking = Some(thinking),
                                        !.implementation = Some(implementation),
                                        !.overall = Some(overall_val),
                                        !.difficulty = Some(overall_val),
                                        !.quality = quality,
                                        !.comment = comment,
                                        !.public = make_public,
                                        !.deleted = FALSE,
                                        !.updated_at = D.now]
                         D2 == [D EXCEPT !.store.votes[i] = updated]
                         D3 == adjust_problem_stats(D2, problem_id, new_values, FALSE)
                     IN  [D |-> save_store(D3), vote |-> updated, existing |-> TRUE]
                ELSE upsert_vote_always_insert(D, user_id, problem_id, thinking, implementation, quality, comment, make_public)
    IN  with_overall(calc_overall(thinking, implementation))

\* upsert_vote that leaves the overall of an existing row as it was stored.
upsert_vote_stale_overall(D, user_id, problem_id, thinking, implementation, quality, comment, make_public) ==
    LET with_overall(overall_val) ==
            LET votes == D.store.votes
                matches == {i \in 1..Len(votes) :
                               votes[i].user_id = user_id /\ votes[i].problem_id = problem_id}
            IN  IF matches # {}
                THEN LET i == Min(matches)
                         existing == votes[i]
                         new_values == [thinking |-> Some(thinking),
                                        implementation |-> Some(implementation),
                                        overall |-> existing.overall, quality |-> quality]
                         D1 == adjust_problem_stats(D, problem_id, PriorValues(existing), TRUE)
                         updated == [existing EXCEPT
                                        !.thinking = Some(thinking),
                                        !.implementation = Some(implementation),
                                        !.quality = quality,
                                        !.comment = comment,
                                        !.public = make_public,
                                        !.deleted = FALSE,
                                        !.updated_at = D.now]
                         D2 == [D1 EXCEPT !.store.votes[i] = updated]
                         D3 == adjust_problem_stats(D2, problem_id, new_values, FALSE)
                     IN  [D |-> save_store(D3), vote |-> updated, existing |-> TRUE]
                ELSE LET new_values == [thinking |-> Some(thinking),
                                        implementation |-> Some(implementation),
                                        overall |-> Some(overall_val), quality |-> quality]
                         vote == [id |-> D.store.next_vote_id,
                                  user_id |-> user_id,
                                  problem_id |-> problem_id,
                                  thinking |-> Some(thinking),
                                  implementation |-> Some(implementation),
                                  overall |-> Some(overall_val),
                                  difficulty |-> Some(overall_val),
                                  quality |-> quality,
                                  comment |-> comment,
                                  public |-> make_public,
                                  deleted |-> FALSE,
                                  created_at |-> D.now,
                                  updated_at |-> D.now]
                         D1 == [D EXCEPT !.store.next_vote_id = @ + 1,
                                         !.store.votes = Append(@, vote)]
                         D2 == adjust_problem_stats(D1, problem_id, new_values, FALSE)
                     IN  [D |-> save_store(D2), vote |-> vote, existing |-> FALSE]
    IN  with_overall(calc_overall(thinking, implementation))

\* upsert_vote that numbers a new vote by the length of the ledger.
upsert_vote_id_by_length(D, user_id, problem_id, thinking, implementation, quality, comment, make_public) ==
    LET with_overall(overall_val) ==
            LET votes == D.store.votes
                matches == {i \in 1..Len(votes) :
                               votes[i].user_id = user_id /\ votes[i].problem_id = problem_id}
                new_values == [thinking |-> Some(thinking), implementation |-> Some(implementation),
                               overall |-> Some(overall_val), quality |-> quality]
            IN  IF matches # {}
                THEN LET i == Min(matches)
                         existing == votes[i]
                         D1 == adjust_problem_stats(D, problem_id, PriorValues(existing), TRUE)
                         updated == [existing EXCEPT
                                        !.thinking = Some(thinking),
                                        !.implementation = Some(implementation),
                                        !.overall = Some(overall_val),
                                        !.difficulty = Some(overall_val),
                                        !.quality = quality,
                                        !.comment = comment,
                                        !.public = make_public,
                                        !.deleted = FALSE,
                                        !.updated_at = D.now]
                         D2 == [D1 EXCEPT !.store.votes[i] = updated]
                         D3 == adjust_problem_stats(D2, problem_id, new_values, FALSE)
                     IN  [D |-> save_store(D3), vote |-> updated, existing |-> TRUE]
                ELSE LET vote == [id |-> Len(D.store.votes) + 1,
                                  user_id |-> user_id,
                                  problem_id |-> problem_id,
                                  thinking |-> Some(thinking),
                                  implementation |-> Some(implementation),
                                  overall |-> Some(overall_val),
                                  difficulty |-> Some(overall_val),
                                  quality |-> quality,
                                  comment |-> comment,
                                  public |-> make_public,
                                  deleted |-> FALSE,
                                  created_at |-> D.now,
                                  updated_at |-> D.now]
                         D1 == [D EXCEPT !.store.next_vote_id = @ + 1,
                                         !.store.votes = Append(@, vote)]
                         D2 == adjust_problem_stats(D1, problem_id, new_values, FALSE)
                     IN  [D |-> save_store(D2), vote |-> vote, existing |-> FALSE]
    IN  with_overall(calc_overall(thinking, implementation))

\* upsert_vote that stamps an existing row as if it were created anew.
upsert_vote_new_created_at(D, user_id, problem_id, thinking, implementation, quality, comment, make_public) ==
    LET with_overall(overall_val) ==
            LET votes == D.store.votes
                matches == {i \in 1..Len(votes) :
                               votes[i].user_id = user_id /\ votes[i].problem_id = problem_id}
                new_values == [thinking |-> Some(thinking), implementation |-> Some(implementation),
                               overall |-> Some(overall_val), quality |-> quality]
            IN  IF matches # {}
                THEN LET i == Min(matches)
                         existing == votes[i]
                         D1 == adjust_problem_stats(D, problem_id, PriorValues(existing), TRUE)
                         updated == [existing EXCEPT
                                        !.thinking = Some(thinking),
                                        !.implementation = Some(implementation),
                                        !.overall = Some(overall_val),
                                        !.difficulty = Some(overall_val),
                                        !.quality = quality,
                                        !.comment = comment,
                                        !.public = make_public,
                                        !.deleted = FALSE,
                                        !.created_at = D.now,
                                        !.updated_at = D.now]
                         D2 == [D1 EXCEPT !.store.votes[i] = updated]
                         D3 == adjust_problem_stats(D2, problem_id, new_values, FALSE)
                     IN  [D |-> save_store(D3), vote |-> updated, existing |-> TRUE]
                ELSE LET vote == [id |-> D.store.next_vote_id,
                                  user_id |-> user_id,
                                  problem_id |-> problem_id,
                                  thinking |-> Some(thinking),
                                  implementation |-> Some(implementation),
                                  overall |-> Some(overall_val),
                                  difficulty |-> Some(overall_val),
                                  quality |-> quality,
                                  comment |-> comment,
                                  public |-> make_public,
                                  deleted |-> FALSE,
                                  created_at |-> D.now,
                                  updated_at |-> D.now]
                         D1 == [D EXCEPT !.store.next_vote_id = @ + 1,
                                         !.store.votes = Append(@, vote)]
                         D2 == adjust_problem_stats(D1, problem_id, new_values, FALSE)
                     IN  [D |-> save_store(D2), vote |-> vote, existing |-> FALSE]
    IN  with_overall(calc_overall(thinking, implementation))

upsert_vote(D, user_id, problem_id, thinking, implementation, quality, comment, make_public) ==
    LET with_overall(overall_val) ==
            LET votes == D.store.votes
                matches == {i \in 1..Len(votes) :
                               votes[i].user_id = user_id /\ votes[i].problem_id = problem_id}
                new_values == [thinking |-> Some(thinking), implementation |-> Some(implementation),
                               overall |-> Some(overall_val), quality |-> quality]
            IN  IF matches # {}
                THEN LET i == Min(matches)
                         existing == votes[i]
                         D1 == adjust_problem_stats(D, problem_id, PriorValues(existing), TRUE)
                         updated == [existing EXCEPT
                                        !.thinking = Some(thinking),
                                        !.implementation = Some(implementation),
                                        !.overall = Some(overall_val),
                                        !.difficulty = Some(overall_val),
                                        !.quality = quality,
                                        !.comment = comment,
                                        !.public = make_public,
                                        !.deleted = FALSE,
                                        !.updated_at = D.now]
                         D2 == [D1 EXCEPT !.store.votes[i] = updated]
                         D3 == adjust_problem_stats(D2, problem_id, new_values, FALSE)
                     IN  [D |-> save_store(D3), vote |-> updated, existing |-> TRUE]
                ELSE LET vote == [id |-> D.store.next_vote_id,
                                  user_id |-> user_id,
                                  problem_id |-> problem_id,
                                  thinking |-> Some(thinking),
                                  implementation |-> Some(implementation),
                                  overall |-> Some(overall_val),
                                  difficulty |-> Some(overall_val),
                                  quality |-> quality,
                                  comment |-> comment,
                                  public |-> make_public,
                                  deleted |-> FALSE,
                                  created_at |-> D.now,
                                  updated_at |-> D.now]
                         D1 == [D EXCEPT !.store.next_vote_id = @ + 1,
                                         !.store.votes = Append(@, vote)]
                         D2 == adjust_problem_stats(D1, problem_id, new_values, FALSE)
                     IN  [D |-> save_store(D2), vote |-> vote, existing |-> FALSE]
    IN  with_overall(calc_overall(thinking, implementation))

\* upsert_vote on an existing row, as another thread of the process can see
\* it: first the contribution of the row is reversed, later the row is
\* rewritten, its new contribution applied and the store saved.
upsert_vote_reverse(D, user_id, problem_id) ==
    LET votes == D.store.votes
        existing == votes[Min({i \in 1..Len(votes) :
                                  votes[i].user_id = user_id /\ votes[i].problem_id = problem_id})]
    IN  adjust_problem_stats(D, problem_id, PriorValues(existing), TRUE)

upsert_vote_apply(D, user_id, problem_id, thinking, implementation, quality, comment, make_public) ==
    LET with_overall(overall_val) ==
            LET votes == D.store.votes
                i == Min({k \in 1..Len(votes) :
                             votes[k].user_id = user_id /\ votes[k].problem_id = problem_id})
                new_values == [thinking |-> Some(thinking), implementation |-> Some(implementation),
                               overall |-> Some(overall_val), quality |-> quality]
                updated == [votes[i] EXCEPT
                               !.thinking = Some(thinking),
                               !.implementation = Some(implementation),
                               !.overall = Some(overall_val),
                               !.difficulty = Some(overall_val),
                               !.quality = quality,
                               !.comment = comment,
                               !.public = make_public,
                               !.deleted = FALSE,
                               !.updated_at = D.now]
                D2 == [D EXCEPT !.store.votes[i] = updated]
            IN  save_store(adjust_problem_stats(D2, problem_id, new_values, FALSE))
    IN  with_overall(calc_overall(thinking, implementation))

\* upsert_vote on a pair that has no row, as another thread of the process can
\* see it: the search has found nothing and the new vote has been built with
\* the next_vote_id read at that moment; later the counter is incremented, the
\* vote appended, its contribution applied and the store saved.
upsert_vote_build(D, user_id, problem_id, thinking, implementation, quality, comment, make_public) ==
    LET with_overall(overall_val) ==
            [id |-> D.store.next_vote_id,
             user_id |-> user_id,
             problem_id |-> problem_id,
             thinking |-> Some(thinking),
             implementation |-> Some(implementation),
             overall |-> Some(overall_val),
             difficulty |-> Some(overall_val),
             quality |-> quality,
             comment |-> comment,
             public |-> make_public,
             deleted |-> FALSE,
             created_at |-> D.now,
             updated_at |-> D.now]
    IN  with_overall(calc_overall(thinking, implementation))

upsert_vote_append(D, vote) ==
    LET D1 == [D EXCEPT !.store.next_vote_id = @ + 1,
                        !.store.votes = Append(@, vote)]
    IN  save_store(adjust_problem_stats(D1, vote.problem_id, VoteValues(vote), FALSE))

\* Whether the ledger has a row of the user on the problem.
HasRow(votes, user_id, problem_id) ==
    \E i \in 1..Len(votes) : votes[i].user_id = user_id /\ votes[i].problem_id = problem_id

\* The rows of the ledger.
Rows(D) == {D.store.votes[i] : i \in 1..Len(D.store.votes)}

\* A loop that stops after the first matching vote it has reversed.
RECURSIVE ReverseFirstMatching(_, _, _)
ReverseFirstMatching(D, matching, i) ==
    IF i > Len(D.store.votes) THEN D
    ELSE LET vote == D.store.votes[i] IN
         IF matching[i] /\ ~vote.deleted
         THEN adjust_problem_stats(D, vote.problem_id, PriorValues(vote), TRUE)
         ELSE ReverseFirstMatching(D, matching, i + 1)

\* The loop of _remove_votes_matching: the contribution of every matching
\* non-deleted vote is reversed while self.store["votes"] is still the full list.
RECURSIVE ReverseMatching(_, _, _)
ReverseMatching(D, matching, i) ==
    IF i > Len(D.store.votes) THEN D
    ELSE LET vote == D.store.votes[i] IN
         IF matching[i] /\ ~vote.deleted
         THEN ReverseMatching(
                  adjust_problem_stats(D, vote.problem_id, PriorValues(vote), TRUE),
                  matching, i + 1)
         ELSE ReverseMatching(D, matching, i + 1)

\* The predicate is passed as the function from the rows of the ledger to
\* its truth value on each of them.
remove_votes_matching(D, predicate) ==
    LET votes == D.store.votes
        matching == [i \in 1..Len(votes) |-> predicate[votes[i]]]
        matched == SelectSeq(votes, LAMBDA vote : predicate[vote])
        remaining_votes == SelectSeq(votes, LAMBDA vote : ~predicate[vote])
        removed_vote_ids == [i \in 1..Len(matched) |-> matched[i].id]
        removed_set == {removed_vote_ids[i] : i \in 1..Len(removed_vote_ids)}
        cleared == Len(SelectSeq(matched, LAMBDA vote : ~vote.deleted))
        purge(D1) ==
            IF removed_vote_ids = <<>>
            THEN [D |-> D1, cleared |-> cleared, removed_vote_ids |-> removed_vote_ids]
            ELSE [D |-> save_store(
                            [D1 EXCEPT
                                !.store.votes = remaining_votes,
                                !.store.reports =
                                    SelectSeq(@, LAMBDA item : item.vote_id \notin removed_set)]),
                  cleared |-> cleared,
                  removed_vote_ids |-> removed_vote_ids]
    IN  purge(ReverseMatching(D, matching, 1))

\* A soft delete that sets the flag of the row and reverses its contribution
\* without looking at the flag.
mark_vote_deleted_soft(D, vote_id) ==
    LET votes == D.store.votes
        found == {i \in 1..Len(votes) : votes[i].id = vote_id}
    IN  IF found = {} THEN [D |-> D, ret |-> FALSE]
        ELSE LET i == Min(found)
                 vote == votes[i]
                 D1 == adjust_problem_stats(D, vote.problem_id, PriorValues(vote), TRUE)
                 D2 == [D1 EXCEPT
                           !.store.votes[i].deleted = TRUE,
                           !.store.reports = SelectSeq(@, LAMBDA item : item.vote_id # vote_id)]
             IN  [D |-> save_store(D2), ret |-> ~vote.deleted]

mark_vote_deleted(D, vote_id) ==
    LET result(r) == [D |-> r.D, ret |-> (r.removed_vote_ids # <<>> \/ r.cleared # 0)]
    IN  result(remove_votes_matching(D, [vote \in Rows(D) |-> vote.id = vote_id]))

mark_votes_deleted_bulk(D, target_ids) ==
    IF target_ids = {} THEN [D |-> D, ret |-> 0]
    ELSE LET result(r) == [D |-> r.D, ret |-> r.cleared]
         IN  result(remove_votes_matching(D, [vote \in Rows(D) |-> vote.id \in target_ids]))

clear_votes_for_user(D, user_id) ==
    LET result(r) == [D |-> r.D, ret |-> r.cleared]
    IN  result(remove_votes_matching(D, [vote \in Rows(D) |-> vote.user_id = user_id]))

\* report_vote without the search for an earlier report of the same pair.
report_vote_no_dup_check(D0, vote_id, user_id) ==
    LET fresh(D) ==
            LET votes == D.store.votes
                found == {i \in 1..Len(votes) : votes[i].id = vote_id}
            IN  IF found = {} \/ votes[Min(found)].deleted
                THEN [D |-> D, ok |-> FALSE, reason |-> "Vote not found"]
                ELSE LET vote == votes[Min(found)]
                         report_id == Max(1, D.store.next_report_id)
                         report == [id |-> report_id, vote_id |-> vote_id, user_id |-> Some(user_id),
                                    target_user_id |-> Some(vote.user_id)]
                         D1 == [D EXCEPT !.store.next_report_id = report_id + 1,
                                         !.store.reports = Append(@, report)]
                     IN  [D |-> save_store(D1), ok |-> TRUE, reason |-> "None"]
    IN  fresh(ensure_store_fresh(D0))

\* report_vote that accepts a row whose deleted flag is set.
report_vote_ignore_deleted(D0, vote_id, user_id) ==
    LET fresh(D) ==
            LET votes == D.store.votes
                found == {i \in 1..Len(votes) : votes[i].id = vote_id}
                reports == D.store.reports
            IN  IF found = {}
                THEN [D |-> D, ok |-> FALSE, reason |-> "Vote not found"]
                ELSE IF \E k \in 1..Len(reports) :
                            reports[k].vote_id = vote_id /\ reports[k].user_id = Some(user_id)
                THEN [D |-> D, ok |-> FALSE, reason |-> "Already reported"]
                ELSE LET vote == votes[Min(found)]
                         report_id == Max(1, D.store.next_report_id)
                         report == [id |-> report_id, vote_id |-> vote_id, user_id |-> Some(user_id),
                                    target_user_id |-> Some(vote.user_id)]
                         D1 == [D EXCEPT !.store.next_report_id = report_id + 1,
                                         !.store.reports = Append(@, report)]
                     IN  [D |-> save_store(D1), ok |-> TRUE, reason |-> "None"]
    IN  fresh(ensure_store_fresh(D0))

\* report_vote that records the reporter as the owner of the vote.
report_vote_target_reporter(D0, vote_id, user_id) ==
    LET fresh(D) ==
            LET votes == D.store.votes
                found == {i \in 1..Len(votes) : votes[i].id = vote_id}
                reports == D.store.reports
            IN  IF vote_id <= 0 \/ user_id <= 0
                THEN [D |-> D, ok |-> FALSE, reason |-> "Invalid vote"]
                ELSE IF found = {} \/ votes[Min(found)].deleted
                THEN [D |-> D, ok |-> FALSE, reason |-> "Vote not found"]
                ELSE IF \E k \in 1..Len(reports) :
                            reports[k].vote_id = vote_id /\ reports[k].user_id = Some(user_id)
                THEN [D |-> D, ok |-> FALSE, reason |-> "Already reported"]
                ELSE LET vote == votes[Min(found)]
                         report_id == Max(1, D.store.next_report_id)
                         report == [id |-> report_id, vote_id |-> vote_id, user_id |-> Some(user_id),
                                    target_user_id |-> Some(user_id)]
                         D1 == [D EXCEPT !.store.next_report_id = report_id + 1,
                                         !.store.reports = Append(@, report)]
                     IN  [D |-> save_store(D1), ok |-> TRUE, reason |-> "None"]
    IN  fresh(ensure_store_fresh(D0))

report_vote(D0, vote_id, user_id) ==
    LET fresh(D) ==
            LET votes == D.store.votes
                found == {i \in 1..Len(votes) : votes[i].id = vote_id}
                reports == D.store.reports
            IN  IF vote_id <= 0 \/ user_id <= 0
                THEN [D |-> D, ok |-> FALSE, reason |-> "Invalid vote"]
                ELSE IF found = {} \/ votes[Min(found)].deleted
                THEN [D |-> D, ok |-> FALSE, reason |-> "Vote not found"]
                ELSE IF \E k \in 1..Len(reports) :
                            reports[k].vote_id = vote_id /\ reports[k].user_id = Some(user_id)
                THEN [D |-> D, ok |-> FALSE, reason |-> "Already reported"]
                ELSE LET vote == votes[Min(found)]
                         report_id == Max(1, D.store.next_report_id)
                         report == [id |-> report_id, vote_id |-> vote_id, user_id |-> Some(user_id),
                                    target_user_id |-> IF vote.user_id # 0 THEN Some(vote.user_id)
                                                       ELSE None]
                         D1 == [D EXCEPT !.store.next_report_id = report_id + 1,
                                         !.store.reports = Append(@, report)]
                     IN  [D |-> save_store(D1), ok |-> TRUE, reason |-> "None"]
    IN  fresh(ensure_store_fresh(D0))

\* The reads of the ledger and of the catalog.
\* list_votes_for_problem answers with the rows of the problem and, as shared,
\* whether the dicts it hands out are the dicts of the ledger themselves; here
\* they are.
list_votes_for_problem_by_reference(D, problem_id) ==
    [rows |-> SelectSeq(D.store.votes, LAMBDA vote : vote.problem_id = problem_id),
     shared |-> TRUE]

\* votes.append(dict(vote)): each returned row is a new dict with the items of
\* the row of the ledger, whose values are numbers, strings, booleans or None.
list_votes_for_problem(D, problem_id) ==
    [rows |-> SelectSeq(D.store.votes, LAMBDA vote : vote.problem_id = problem_id),
     shared |-> FALSE]

find_vote_by_id(D0, vote_id) ==
    LET fresh(D) ==
            LET votes == D.store.votes
                found == {i \in 1..Len(votes) : votes[i].id = vote_id}
            IN  [D |-> D,
                 ret |-> IF vote_id <= 0 \/ found = {} THEN None ELSE Some(votes[Min(found)])]
    IN  fresh(ensure_store_fresh(D0))

get_problem(D, problem_id) ==
    IF problem_id \in DOMAIN D.problem_map THEN Some(D.problem_map[problem_id]) ELSE None

---------------------------------------------------------------------------
(* Catalog: custom problems and courses.                                   *)

create_problem(D, type_id, title) ==
    LET problem_id == D.store.next_problem_id
        payload == init_problem_stats(
                       [type |-> type_id,
                        title |-> title,
                        cnt |-> [m \in Metrics |-> 0],
                        avg |-> [m \in Metrics |-> None],
                        sd |-> [m \in Metrics |-> None],
                        median |-> NoMedians,
                        stats |-> [m \in Metrics |-> [count |-> 0, sum |-> 0, sum_sq |-> 0]]])
        D1 == [D EXCEPT
                  !.store.next_problem_id = @ + 1,
                  !.store.custom_problems = [pid \in DOMAIN @ \cup {problem_id} |->
                                                IF pid = problem_id THEN None ELSE @[pid]],
                  !.problem_map = [pid \in DOMAIN @ \cup {problem_id} |->
                                      IF pid = problem_id THEN payload ELSE @[pid]],
                  !.problems_by_type = [t \in DOMAIN @ \cup {type_id} |->
                                           (IF t \in DOMAIN @ THEN @[t] ELSE {})
                                               \cup (IF t = type_id THEN {problem_id} ELSE {})]]
    IN  save_store(D1)

\* _delete_problem that leaves the reports on the removed votes in place.
delete_problem_keep_reports(D, problem_id, save) ==
    IF problem_id \notin DOMAIN D.problem_map THEN [D |-> D, ret |-> FALSE]
    ELSE LET type_id == D.problem_map[problem_id].type
             D1 == [D EXCEPT
                       !.store.custom_problems = [pid \in DOMAIN @ \ {problem_id} |-> @[pid]],
                       !.store.votes = SelectSeq(@, LAMBDA vote : vote.problem_id # problem_id),
                       !.problems_by_type = [t \in DOMAIN @ |-> @[t] \ {problem_id}],
                       !.problem_map = [pid \in DOMAIN @ \ {problem_id} |-> @[pid]]]
         IN  [D |-> IF save THEN save_store(D1) ELSE D1, ret |-> TRUE]

\* _delete_problem: the problem, its votes and the reports on those votes go.
delete_problem_internal(D, problem_id, save) ==
    IF problem_id \notin DOMAIN D.problem_map THEN [D |-> D, ret |-> FALSE]
    ELSE LET votes == D.store.votes
             removed == SelectSeq(votes, LAMBDA vote : vote.problem_id = problem_id)
             removed_vote_ids == {removed[i].id : i \in 1..Len(removed)}
             type_id == D.problem_map[problem_id].type
             D1 == [D EXCEPT
                       !.store.custom_problems = [pid \in DOMAIN @ \ {problem_id} |-> @[pid]],
                       !.store.votes = SelectSeq(@, LAMBDA vote : vote.problem_id # problem_id),
                       !.store.reports =
                           SelectSeq(@, LAMBDA item : item.vote_id \notin removed_vote_ids),
                       !.problems_by_type = [t \in DOMAIN @ |-> @[t] \ {problem_id}],
                       !.problem_map = [pid \in DOMAIN @ \ {problem_id} |-> @[pid]]]
         IN  [D |-> IF save THEN save_store(D1) ELSE D1, ret |-> TRUE]

\* create_course: a name that a course has already is refused.
create_course(D, name) ==
    LET type_id == D.store.next_type_id
        D1 == [D EXCEPT !.store.next_type_id = @ + 1,
                        !.store.custom_types = [t \in DOMAIN @ \cup {type_id} |->
                                                   IF t = type_id THEN name ELSE @[t]],
                        !.problems_by_type = [t \in DOMAIN @ \cup {type_id} |->
                                                 IF t = type_id THEN {} ELSE @[t]]]
    IN  IF \E t \in DOMAIN D.store.custom_types : D.store.custom_types[t] = name
        THEN D
        ELSE save_store(D1)

RECURSIVE DeleteProblems(_, _)
DeleteProblems(D, pids) ==
    IF pids = {} THEN D
    ELSE LET pid == Min(pids)
         IN  DeleteProblems(delete_problem_internal(D, pid, FALSE).D, pids \ {pid})

delete_course(D, type_id) ==
    IF type_id \notin DOMAIN D.store.custom_types THEN [D |-> D, ret |-> FALSE]
    ELSE LET bucket == IF type_id \in DOMAIN D.problems_by_type
                       THEN D.problems_by_type[type_id] ELSE {}
             D1 == DeleteProblems(D, bucket)
             D2 == [D1 EXCEPT !.store.custom_types = [t \in DOMAIN @ \ {type_id} |-> @[t]],
                              !.problems_by_type = [t \in DOMAIN @ \ {type_id} |-> @[t]]]
         IN  [D |-> save_store(D2), ret |-> TRUE]

\* delete_problem: only a custom problem can be deleted.
delete_problem(D, problem_id) ==
    IF problem_id \notin DOMAIN D.store.custom_problems
    THEN [D |-> D, ret |-> FALSE]
    ELSE delete_problem_internal(D, problem_id, TRUE)

---------------------------------------------------------------------------
(* Users and the import of the legacy files.                               *)

find_user_by_username(D, username) ==
    LET users == D.store.users
        hits == {i \in 1..Len(users) : Lower(users[i].username) = Lower(username)}
    IN  IF hits = {} THEN None ELSE Some(users[Min(hits)])

\* register_user: a username that is taken, in whatever case, is refused.
register_user(D, username) ==
    IF find_user_by_username(D, username) # None THEN D
    ELSE save_store([D EXCEPT
                        !.store.users = Append(@, [id |-> D.store.next_user_id,
                                                   username |-> username]),
                        !.store.next_user_id = @ + 1])

find_user_by_id(D, user_id) ==
    LET users == D.store.users
        hits == {i \in 1..Len(users) : users[i].id = user_id}
    IN  IF hits = {} THEN None ELSE Some(users[Min(hits)])

reject_user(D, user_id) ==
    LET users == D.store.users
        kept == SelectSeq(users, LAMBDA user : user.id # user_id)
    IN  IF Len(kept) # Len(users)
        THEN [D |-> save_store([D EXCEPT !.store.users = kept]), ret |-> TRUE]
        ELSE [D |-> D, ret |-> FALSE]

\* user_lookup of import_legacy_config: the users by lower-case username, a
\* later user of the list taking the key from an earlier one.
UserLookup(D, username) ==
    LET users == D.store.users
        hits == {i \in 1..Len(users) : Lower(users[i].username) = Lower(username)}
    IN  IF hits = {} THEN None ELSE Some(users[MaxOf(hits)])

\* The name of the course the import files its problems under.
LegacyCourseName == "legacy course"

ZeroSummary ==
    [users_created |-> 0, users_updated |-> 0, problems_created |-> 0,
     problems_updated |-> 0, votes_imported |-> 0, votes_updated |-> 0, skipped_votes |-> 0]

RECURSIVE ImportUsers(_, _, _)
ImportUsers(D, names, summary) ==
    IF names = <<>> THEN [D |-> D, summary |-> summary]
    ELSE IF UserLookup(D, Head(names)) # None
    THEN ImportUsers(D, Tail(names), [summary EXCEPT !.users_updated = @ + 1])
    ELSE ImportUsers([D EXCEPT
                         !.store.users = Append(@, [id |-> D.store.next_user_id,
                                                    username |-> Head(names)]),
                         !.store.next_user_id = @ + 1],
                     Tail(names), [summary EXCEPT !.users_created = @ + 1])

\* upsert_vote(..., save=False).
upsert_vote_unsaved(D, user_id, problem_id, thinking, implementation, quality, comment, make_public) ==
    [upsert_vote(D, user_id, problem_id, thinking, implementation, quality, comment, make_public).D
        EXCEPT !.disk = D.disk, !.stale = D.stale]

RECURSIVE ImportVotes(_, _, _, _)
ImportVotes(D, problem_id, votes, summary) ==
    IF votes = <<>> THEN [D |-> D, summary |-> summary]
    ELSE LET vote == Head(votes) IN
         IF vote.voter = "" \/ UserLookup(D, vote.voter) = None
         THEN ImportVotes(D, problem_id, Tail(votes), [summary EXCEPT !.skipped_votes = @ + 1])
         ELSE LET voter_user == UserLookup(D, vote.voter)[1] IN
              ImportVotes(upsert_vote_unsaved(D, voter_user.id, problem_id, vote.thinking,
                                              vote.implementing, vote.quality, "", FALSE),
                          problem_id, Tail(votes),
                          IF HasRow(D.store.votes, voter_user.id, problem_id)
                          THEN [summary EXCEPT !.votes_updated = @ + 1]
                          ELSE [summary EXCEPT !.votes_imported = @ + 1])

\* The problems of a course that carry a title.
Titled(D, type_id, title) ==
    {pid \in (IF type_id \in DOMAIN D.problems_by_type THEN D.problems_by_type[type_id] ELSE {}) :
        D.problem_map[pid].title = title}

RECURSIVE ImportProblems(_, _, _, _)
ImportProblems(D, legacy_course_id, entries, summary) ==
    IF entries = <<>> THEN [D |-> D, summary |-> summary]
    ELSE LET entry == Head(entries)
             imported(r) == ImportProblems(r.D, legacy_course_id, Tail(entries), r.summary)
         IN  IF Titled(D, legacy_course_id, entry.title) # {}
             THEN imported(ImportVotes(D, Min(Titled(D, legacy_course_id, entry.title)),
                                       entry.votes,
                                       [summary EXCEPT !.problems_updated = @ + 1]))
             ELSE imported(ImportVotes(create_problem(D, legacy_course_id, entry.title),
                                       D.store.next_problem_id, entry.votes,
                                       [summary EXCEPT !.problems_created = @ + 1]))

\* import_legacy_config that files every title as a new problem.
import_legacy_config_no_match(D0, source) ==
    LET named == {t \in DOMAIN D0.store.custom_types :
                     D0.store.custom_types[t] = LegacyCourseName}
        legacy_course_id == IF named # {} THEN Min(named) ELSE D0.store.next_type_id
        problems(u) ==
            ImportVotes(create_problem(u.D, legacy_course_id, source.votes[1].title),
                        u.D.store.next_problem_id, source.votes[1].votes,
                        [u.summary EXCEPT !.problems_created = @ + 1])
        finish(r) == [D |-> save_store(rebuild_problem_stats(r.D)), summary |-> r.summary]
    IN  finish(problems(ImportUsers(IF named # {} THEN D0
                                    ELSE create_course(D0, LegacyCourseName),
                                    source.users, ZeroSummary)))

import_legacy_config(D0, source) ==
    LET named == {t \in DOMAIN D0.store.custom_types :
                     D0.store.custom_types[t] = LegacyCourseName}
        legacy_course_id == IF named # {} THEN Min(named) ELSE D0.store.next_type_id
        problems(u) == ImportProblems(u.D, legacy_course_id, source.votes, u.summary)
        finish(r) == [D |-> save_store(rebuild_problem_stats(r.D)), summary |-> r.summary]
    IN  finish(problems(ImportUsers(IF named # {} THEN D0
                                    ELSE create_course(D0, LegacyCourseName),
                                    source.users, ZeroSummary)))

---------------------------------------------------------------------------
(* Request handlers.  The caller of a user route is a logged-in, approved  *)
(* user; the caller of an admin route is an administrator.                 *)

\* The ids a request can name: those assigned so far and the next one, which
\* names nothing yet.
ProblemIds == 1..store.next_problem_id
VoteIds == 1..store.next_vote_id
TypeIds == 1..store.next_type_id

\* The range check without the check of the quality.
InRange_no_quality(thinking, implementation, quality) ==
    /\ 800 <= thinking /\ thinking <= 3500
    /\ 800 <= implementation /\ implementation <= 3500

InRange(thinking, implementation, quality) ==
    /\ 800 <= thinking /\ thinking <= 3500
    /\ 800 <= implementation /\ implementation <= 3500
    /\ (quality # None => (-5 <= quality[1] /\ quality[1] <= 5))

api_vote(user_id, problem_id, thinking, implementation, quality, comment, make_public) ==
    /\ Serve
    /\ IF ~InRange(thinking, implementation, quality)
       THEN /\ last' = [op |-> "api_vote", ret |-> "Out of range"]
            /\ UNCHANGED <<store, problem_map, problems_by_type, disk, stale>>
       ELSE IF problem_id \notin DOMAIN problem_map
       THEN /\ last' = [op |-> "api_vote", ret |-> "Problem not found"]
            /\ UNCHANGED <<store, problem_map, problems_by_type, disk, stale>>
       ELSE \E r \in {upsert_vote(Cur, user_id, problem_id, thinking, implementation, quality, comment, make_public)} :
                /\ Commit(r.D)
                /\ last' = [op |-> "api_vote", ret |-> "success", existing |-> r.existing]

api_delete_vote(vote_id) ==
    \E r \in {mark_vote_deleted(Cur, vote_id)} :
        /\ Serve
        /\ Commit(r.D)
        /\ last' = IF r.ret
                   THEN [op |-> "api_delete_vote", ret |-> "success", vote_id |-> vote_id]
                   ELSE [op |-> "api_delete_vote", ret |-> "Vote not found",
                         again |-> /\ last.op = "api_delete_vote"
                                   /\ last.ret = "success"
                                   /\ last.vote_id = vote_id]

\* The two handlers flash the number the data store returned to them.
admin_clear_votes(user_id) ==
    \E r \in {clear_votes_for_user(Cur, user_id)} :
        /\ Serve
        /\ Commit(r.D)
        /\ last' = [op |-> "admin", ret |-> "redirect", flash |-> r.ret,
                    user_id |-> Some(user_id), vote_ids |-> {}]

admin_delete_problem_votes(vote_ids) ==
    \E r \in {mark_votes_deleted_bulk(Cur, vote_ids)} :
        /\ Serve
        /\ Commit(r.D)
        /\ last' = [op |-> "admin", ret |-> "redirect", flash |-> r.ret,
                    user_id |-> None, vote_ids |-> vote_ids]

api_report_vote(vote_id, user_id) ==
    \E r \in {report_vote(Cur, vote_id, user_id)} :
        /\ Serve
        /\ Commit(r.D)
        /\ last' = [op |-> "api_report_vote", ret |-> r.reason]

admin_create_problem(type_id) ==
    /\ Serve
    /\ Commit(create_problem(Cur, type_id, CustomTitle))
    /\ last' = [op |-> "admin", ret |-> "redirect"]

api_delete_problem(problem_id) ==
    /\ Serve
    /\ Commit(delete_problem(Cur, problem_id).D)
    /\ last' = [op |-> "admin", ret |-> "redirect"]

admin_create_course(name) ==
    /\ Serve
    /\ Commit(create_course(Cur, name))
    /\ last' = [op |-> "admin", ret |-> "redirect"]

admin_delete_course(type_id) ==
    /\ Serve
    /\ Commit(delete_course(Cur, type_id).D)
    /\ last' = [op |-> "admin", ret |-> "redirect"]

\* GET /api/votes as an administrator sees it: the non-deleted votes of the
\* problem whose user is found, next to the means the deltas of the rows are taken from.
api_votes(problem_id) ==
    /\ Accept
    /\ UNCHANGED running
    /\ last' = IF get_problem(Cur, problem_id) = None
               THEN [op |-> "api_votes", ret |-> "Problem not found", problem_id |-> problem_id]
               ELSE [op |-> "api_votes", ret |-> "success", problem_id |-> problem_id,
                     votes |-> SelectSeq(list_votes_for_problem(Cur, problem_id).rows,
                                         LAMBDA vote :
                                             /\ ~vote.deleted
                                             /\ find_user_by_id(Cur, vote.user_id) # None),
                     avg |-> get_problem(Cur, problem_id)[1].avg]
    /\ UNCHANGED <<store, problem_map, problems_by_type, disk, stale>>

\* A caller of the data store looks a vote up by its id.
find_vote(vote_id) ==
    \E r \in {find_vote_by_id(Cur, vote_id)} :
        /\ Serve
        /\ Commit(r.D)
        /\ last' = [op |-> "find_vote_by_id", ret |-> r.ret, vote_id |-> vote_id]

\* A caller of the data store lists the votes of a problem and overwrites the
\* comment in every dict it was given.  The write reaches the ledger when the
\* dicts are shared with it.
list_votes(problem_id) ==
    \E listed \in {list_votes_for_problem(Cur, problem_id)} :
        /\ Serve
        /\ Commit(IF listed.shared
                  THEN [Cur EXCEPT
                           !.store.votes =
                               [i \in DOMAIN @ |->
                                   IF @[i].problem_id = problem_id
                                   THEN [@[i] EXCEPT !.comment = "edited"] ELSE @[i]]]
                  ELSE Cur)
        /\ last' = [op |-> "list_votes_for_problem", problem_id |-> problem_id,
                    ret |-> [k \in DOMAIN listed.rows |->
                                [listed.rows[k] EXCEPT !.comment = "edited"]]]

\* The end of main() of scripts/prune_system_courses.py, on the data store it
\* holds: datastore._rebuild_problem_stats(); datastore._save_store().
rebuild_and_save ==
    /\ Serve
    /\ Commit(save_store(rebuild_problem_stats(Cur)))
    /\ last' = [op |-> "_rebuild_problem_stats", ret |-> "success"]

register(username) ==
    /\ Serve
    /\ Commit(register_user(Cur, username))
    /\ last' = [op |-> "register", ret |-> "redirect"]

\* POST /admin/import/legacy; the handler notes whether it repeats the import
\* that was served just before it.
admin_import_legacy(source) ==
    \E r \in {import_legacy_config(Cur, source)} :
        /\ Serve
        /\ Commit(r.D)
        /\ last' = [op |-> "admin_import_legacy", ret |-> "redirect",
                    summary |-> r.summary, source |-> source,
                    again |-> (last.op = "admin_import_legacy" /\ last.source = source)]

\* POST /admin/users/<user_id>/reject.
admin_reject_user(user_id) ==
    \E r \in {reject_user(Cur, user_id)} :
        /\ Serve
        /\ Commit(r.D)
        /\ last' = [op |-> "admin_reject_user", ret |-> r.ret, user_id |-> user_id]

AdminRejectUser == \E user_id \in Users : admin_reject_user(user_id)

\* /api/vote by a caller the before_request hook finds among the users.
ApiVoteLoggedIn ==
    \E user_id \in Users, problem_id \in ProblemIds, form \in VoteInputs :
        /\ find_user_by_id(Cur, user_id) # None
        /\ api_vote(user_id, problem_id, form[1], form[2], form[3], form[4], form[5])

Register == \E username \in Usernames : register(username)

AdminImportLegacy == \E source \in LegacySources : admin_import_legacy(source)

ApiVotes == \E problem_id \in ProblemIds : api_votes(problem_id)

ListVotes == \E problem_id \in ProblemIds : list_votes(problem_id)

FindVote == \E vote_id \in VoteIds : find_vote(vote_id)

ApiVote ==
    \E user_id \in Users, problem_id \in ProblemIds, form \in VoteInputs :
        api_vote(user_id, problem_id, form[1], form[2], form[3], form[4], form[5])

ApiDeleteVote == \E vote_id \in VoteIds : api_delete_vote(vote_id)

AdminClearVotes == \E user_id \in Users : admin_clear_votes(user_id)

AdminDeleteProblemVotes == \E vote_ids \in SUBSET VoteIds : admin_delete_problem_votes(vote_ids)

ApiReportVote == \E vote_id \in VoteIds, user_id \in Users : api_report_vote(vote_id, user_id)

AdminCreateProblem == \E type_id \in TypeIds : admin_create_problem(type_id)

ApiDeleteProblem == \E problem_id \in ProblemIds : api_delete_problem(problem_id)

AdminCreateCourse == \E name \in CourseNames : admin_create_course(name)

AdminDeleteCourse == \E type_id \in TypeIds : admin_delete_course(type_id)

---------------------------------------------------------------------------
(* The store after construction on a fresh installation: no snapshot file  *)
(* exists, the default payload is written and loaded.                      *)

EmptyStore ==
    [store |-> DEFAULT_STORE_PAYLOAD,
     problem_map |-> <<>>,
     problems_by_type |-> <<>>,
     disk |-> Written(DEFAULT_STORE_PAYLOAD),
     stale |-> FALSE,
     now |-> 0]

Init ==
    /\ store = EmptyStore.store
    /\ problem_map = EmptyStore.problem_map
    /\ problems_by_type = EmptyStore.problems_by_type
    /\ disk = EmptyStore.disk
    /\ stale = FALSE
    /\ last = [op |-> "init", ret |-> "success"]
    /\ requests = 0
    /\ running = None

\* The store of an installation whose two users have registered.
RegisteredUsers == <<[id |-> 1, username |-> "Alice"], [id |-> 2, username |-> "bob"]>>

InitUsers ==
    /\ store = [EmptyStore.store EXCEPT !.users = RegisteredUsers, !.next_user_id = 3]
    /\ problem_map = EmptyStore.problem_map
    /\ problems_by_type = EmptyStore.problems_by_type
    /\ disk = Written([DEFAULT_STORE_PAYLOAD EXCEPT !.users = RegisteredUsers,
                                                    !.next_user_id = 3])
    /\ stale = FALSE
    /\ last = [op |-> "init", ret |-> "success"]
    /\ requests = 0
    /\ running = None

Next ==
    \/ ApiVote
    \/ ApiDeleteVote
    \/ AdminClearVotes
    \/ AdminDeleteProblemVotes
    \/ ApiReportVote
    \/ AdminCreateProblem
    \/ ApiDeleteProblem

Spec == Init /\ [][Next]_vars

\* The ledger together with the administration of custom courses.
NextCatalog ==
    \/ Next
    \/ AdminCreateCourse
    \/ AdminDeleteCourse

SpecCatalog == Init /\ [][NextCatalog]_vars

\* The ledger together with a caller that lists the votes of a problem.
NextReads ==
    \/ Next
    \/ ListVotes

SpecReads == Init /\ [][NextReads]_vars

\* Voting together with the maintenance script's rebuild of the aggregates.
NextRebuild ==
    \/ ApiVote
    \/ ApiDeleteVote
    \/ AdminCreateProblem
    \/ rebuild_and_save

SpecRebuild == Init /\ [][NextRebuild]_vars

\* Voting by the users of the store, with the removal of users.
NextUsers ==
    \/ AdminCreateProblem
    \/ ApiVoteLoggedIn
    \/ ApiDeleteVote
    \/ ApiVotes
    \/ AdminRejectUser

SpecUsers == InitUsers /\ [][NextUsers]_vars

\* Voting together with the registration of users and the legacy import.
NextImport ==
    \/ ApiVote
    \/ ApiDeleteVote
    \/ Register
    \/ AdminImportLegacy

SpecImport == Init /\ [][NextImport]_vars

---------------------------------------------------------------------------
(* A snapshot write that fails.  STORE_PATH.write_text raises OSError      *)
(* either before it has touched the file or after it has truncated it; no  *)
(* handler catches it, so the request is answered with status 500.  The    *)
(* save is the last statement of each of the three operations, so all      *)
(* their changes to the memory of the process have been made.              *)

\* A failure that also puts the ledger back as it was before the operation.
write_fails_ledger_restored(before, after, torn) ==
    [after EXCEPT
        !.store.votes = before.store.votes,
        !.disk = IF torn THEN [before.disk EXCEPT !.written = FALSE] ELSE before.disk,
        !.stale = IF torn THEN TRUE ELSE before.stale]

\* The data store after an operation whose closing _save_store raised: the
\* memory as the operation left it, the file untouched or torn (and then
\* newer than the modification time the process has recorded).
write_fails(before, after, torn) ==
    [after EXCEPT
        !.disk = IF torn THEN [before.disk EXCEPT !.written = FALSE] ELSE before.disk,
        !.stale = IF torn THEN TRUE ELSE before.stale]

ApiVoteWriteFails ==
    \E user_id \in Users, problem_id \in ProblemIds, form \in ValidVoteInputs, torn \in BOOLEAN :
        /\ problem_id \in DOMAIN problem_map
        /\ Serve
        /\ Commit(write_fails(Cur, upsert_vote(Cur, user_id, problem_id,
                                               form[1], form[2], form[3], form[4], form[5]).D, torn))
        /\ last' = [op |-> "api_vote", ret |-> "Internal Server Error"]

ApiDeleteVoteWriteFails ==
    \E vote_id \in VoteIds, torn \in BOOLEAN :
        \E r \in {mark_vote_deleted(Cur, vote_id)} :
            /\ r.ret
            /\ Serve
            /\ Commit(write_fails(Cur, r.D, torn))
            /\ last' = [op |-> "api_delete_vote", ret |-> "Internal Server Error",
                        vote_id |-> vote_id]

ApiReportVoteWriteFails ==
    \E vote_id \in VoteIds, user_id \in Users, torn \in BOOLEAN :
        \E r \in {report_vote(Cur, vote_id, user_id)} :
            /\ r.ok
            /\ Serve
            /\ Commit(write_fails(Cur, r.D, torn))
            /\ last' = [op |-> "api_report_vote", ret |-> "Internal Server Error"]

NextWriteFails ==
    \/ Next
    \/ ApiVoteWriteFails
    \/ ApiDeleteVoteWriteFails
    \/ ApiReportVoteWriteFails

SpecWriteFails == Init /\ [][NextWriteFails]_vars

---------------------------------------------------------------------------
(* The solver on its own: a pair of ratings is drawn, then _calc_overall   *)
(* is applied to it.                                                       *)

SolverRatings == {800, 1000, 1200, 1500, 1653, 1800, 2000, 2200, 2500, 3000, 3500}

InitSolver ==
    /\ store = EmptyStore.store
    /\ problem_map = EmptyStore.problem_map
    /\ problems_by_type = EmptyStore.problems_by_type
    /\ disk = EmptyStore.disk
    /\ stale = FALSE
    /\ requests = 0
    /\ running = None
    /\ \E thinking, implementation \in SolverRatings :
           last = [op |-> "ratings", thinking |-> thinking, implementation |-> implementation]

CalcOverall ==
    /\ last.op = "ratings"
    /\ last' = [op |-> "_calc_overall", thinking |-> last.thinking,
                implementation |-> last.implementation,
                ret |-> calc_overall(last.thinking, last.implementation)]
    /\ UNCHANGED <<store, problem_map, problems_by_type, disk, stale, requests, running>>

NextSolver == CalcOverall

SpecSolver == InitSolver /\ [][NextSolver]_vars

---------------------------------------------------------------------------
(* Two processes on one snapshot file.  The other process is constructed   *)
(* over the file as it is and serves one /api/vote; its _save_store opens  *)
(* the file for writing, which truncates it and renews its modification    *)
(* time, and then writes the document.  Between the two steps the file     *)
(* does not hold the whole document.                                       *)

other_process_vote(file, user_id, problem_id, form) ==
    upsert_vote(load_store([EmptyStore EXCEPT !.disk = file, !.stale = TRUE,
                                              !.now = requests + 1]),
                user_id, problem_id, form[1], form[2], form[3], form[4], form[5]).D.disk.payload

OtherProcessBeginSave ==
    \E user_id \in Users, problem_id \in DOMAIN disk.payload.custom_problems,
       form \in ValidVoteInputs :
        /\ disk.written
        /\ Serve
        /\ disk' = [written |-> FALSE,
                    payload |-> other_process_vote(disk, user_id, problem_id, form)]
        /\ stale' = TRUE
        /\ last' = [op |-> "other_process", ret |-> "saving"]
        /\ UNCHANGED <<store, problem_map, problems_by_type>>

OtherProcessEndSave ==
    /\ ~disk.written
    /\ disk' = [disk EXCEPT !.written = TRUE]
    /\ stale' = TRUE
    /\ last' = [op |-> "other_process", ret |-> "saved"]
    /\ UNCHANGED <<store, problem_map, problems_by_type, requests, running>>

NextShared ==
    \/ Next
    \/ ApiVotes
    \/ FindVote
    \/ OtherProcessBeginSave
    \/ OtherProcessEndSave

SpecShared == InitUsers /\ [][NextShared]_vars

---------------------------------------------------------------------------
(* The recording of the modification time.  _save_store writes the file    *)
(* and then, in a statement of its own, asks the file system for the       *)
(* file's modification time and records it; _load_store reads the file in  *)
(* its first statement and records the modification time in its last.      *)
(* Another process can write the file between the two.  Recording the time *)
(* the file has at that moment makes the file no newer than the record,    *)
(* whoever wrote it last.                                                  *)

\* /api/vote up to and with STORE_PATH.write_text of its _save_store.
ApiVoteWrite ==
    \E user_id \in Users, problem_id \in DOMAIN problem_map, form \in ValidVoteInputs :
        /\ running = None
        /\ Accept
        /\ Commit([upsert_vote(Cur, user_id, problem_id,
                               form[1], form[2], form[3], form[4], form[5]).D
                      EXCEPT !.stale = TRUE])
        /\ running' = Some([op |-> "_save_store"])
        /\ last' = [op |-> "api_vote", ret |-> "running"]

\* find_vote_by_id on a newer file, up to the last statement of _load_store.
FindVoteRead ==
    /\ running = None
    /\ stale
    /\ disk.written
    /\ Accept
    /\ Commit([load_store(Cur) EXCEPT !.stale = TRUE])
    /\ running' = Some([op |-> "_load_store"])
    /\ last' = [op |-> "find_vote_by_id", ret |-> "running"]

\* self._store_mtime = self._store_file_mtime(), the statement that ends both.
RecordMtime ==
    /\ running # None
    /\ stale' = FALSE
    /\ running' = None
    /\ last' = [op |-> running[1].op, ret |-> "success"]
    /\ UNCHANGED <<store, problem_map, problems_by_type, disk, requests>>

\* Another process serves one /api/vote from its start to its end, at any
\* moment.
OtherProcessSave ==
    \E user_id \in Users, problem_id \in DOMAIN disk.payload.custom_problems,
       form \in ValidVoteInputs :
        /\ disk.written
        /\ Accept
        /\ disk' = Written(other_process_vote(disk, user_id, problem_id, form))
        /\ stale' = TRUE
        /\ last' = [op |-> "other_process", ret |-> "saved"]
        /\ UNCHANGED <<store, problem_map, problems_by_type, running>>

NextMtime ==
    \/ AdminCreateProblem
    \/ ApiVote
    \/ FindVote
    \/ ApiVoteWrite
    \/ FindVoteRead
    \/ RecordMtime
    \/ OtherProcessSave

SpecMtime == Init /\ [][NextMtime]_vars

---------------------------------------------------------------------------
(* Two worker threads in one process.  The data store takes no lock, so a  *)
(* second thread can be scheduled in the middle of an upsert_vote on an    *)
(* existing row, between the reversal of the row's contribution and the    *)
(* application of the new one.  While a request is in its middle, the      *)
(* other thread serves reads only.                                         *)

ApiVoteBegin ==
    \E user_id \in Users, problem_id \in DOMAIN problem_map, form \in ValidVoteInputs :
        /\ running = None
        /\ HasRow(store.votes, user_id, problem_id)
        /\ Accept
        /\ Commit(upsert_vote_reverse(Cur, user_id, problem_id))
        /\ running' = Some([user_id |-> user_id, problem_id |-> problem_id, form |-> form,
                             timestamp |-> Cur.now])
        /\ last' = [op |-> "api_vote", ret |-> "running"]

ApiVoteEnd ==
    /\ running # None
    /\ Commit(upsert_vote_apply([Cur EXCEPT !.now = running[1].timestamp],
                                 running[1].user_id, running[1].problem_id,
                                running[1].form[1], running[1].form[2], running[1].form[3],
                                running[1].form[4], running[1].form[5]))
    /\ running' = None
    /\ last' = [op |-> "api_vote", ret |-> "success", existing |-> TRUE]
    /\ UNCHANGED requests

NextThreads ==
    \/ Next
    \/ ApiVotes
    \/ ApiVoteBegin
    \/ ApiVoteEnd

SpecThreads == InitUsers /\ [][NextThreads]_vars

---------------------------------------------------------------------------
(* The store after construction over an existing snapshot file: a legacy   *)
(* file whose problem summaries are empty and whose vote rows may carry    *)
(* the soft-delete flag, or the default file.  The requests that wrote the *)
(* file, one for its problem and one for each vote, count as served.       *)

LegacyVote(id, user_id, form, deleted) ==
    LET row(overall_val) ==
            [id |-> id, user_id |-> user_id, problem_id |-> 1,
             thinking |-> Some(form[1]), implementation |-> Some(form[2]),
             overall |-> Some(overall_val), difficulty |-> Some(overall_val),
             quality |-> form[3], comment |-> form[4], public |-> form[5],
             deleted |-> deleted, created_at |-> 0, updated_at |-> 0]
    IN  row(calc_overall(form[1], form[2]))

LegacyProblem ==
    [type |-> 1,
     title |-> CustomTitle,
     cnt |-> [m \in Metrics |-> 0],
     avg |-> [m \in Metrics |-> None],
     sd |-> [m \in Metrics |-> None],
     median |-> NoMedians,
     stats |-> [m \in Metrics |-> [count |-> 0, sum |-> 0, sum_sq |-> 0]]]

\* A problem persisted with a count below zero.
LegacyProblemNegative ==
    [LegacyProblem EXCEPT
        !.cnt = [m \in Metrics |-> -2],
        !.avg = [m \in Metrics |-> Some(<<2000, 1>>)],
        !.sd = [m \in Metrics |-> Some(<<0, 1>>)]]

LegacySnapshots ==
    {DEFAULT_STORE_PAYLOAD}
    \cup {[DEFAULT_STORE_PAYLOAD EXCEPT
              !.next_problem_id = 2,
              !.custom_problems = <<LegacyProblemNegative>>]}
    \cup {[DEFAULT_STORE_PAYLOAD EXCEPT
              !.votes = <<LegacyVote(1, 1, <<1800, 2000, None, "", FALSE>>, d1)>>,
              !.next_vote_id = 2,
              !.next_problem_id = 2,
              !.custom_problems = <<LegacyProblem>>] : d1 \in BOOLEAN}
    \cup {[DEFAULT_STORE_PAYLOAD EXCEPT
              !.votes = <<LegacyVote(1, 1, <<1800, 2000, None, "", FALSE>>, d1),
                          LegacyVote(2, 2, <<2000, 2000, Some(5), "neat", TRUE>>, d2)>>,
              !.next_vote_id = 3,
              !.next_problem_id = 2,
              !.custom_problems = <<LegacyProblem>>] : d1, d2 \in BOOLEAN}

InitLoaded ==
    \E file \in LegacySnapshots :
        \E D \in {load_store([EmptyStore EXCEPT !.disk = Written(file), !.stale = TRUE])} :
            /\ store = D.store
            /\ problem_map = D.problem_map
            /\ problems_by_type = D.problems_by_type
            /\ disk = D.disk
            /\ stale = D.stale
            /\ last = [op |-> "init", ret |-> "success"]
            /\ requests = Len(file.custom_problems) + Len(file.votes)
            /\ running = None

SpecLoaded == InitLoaded /\ [][Next]_vars

---------------------------------------------------------------------------
(* Two worker threads voting in one process.  No lock is taken, so while   *)
(* one thread is in upsert_vote between building its new vote and          *)
(* appending it, the other thread can serve a whole /api/vote.             *)

ApiVoteInsertBegin ==
    \E user_id \in Users, problem_id \in DOMAIN problem_map, form \in ValidVoteInputs :
        /\ running = None
        /\ ~HasRow(store.votes, user_id, problem_id)
        /\ Accept
        /\ running' = Some([op |-> "upsert_vote",
                             vote |-> upsert_vote_build(Cur, user_id, problem_id, form[1], form[2],
                                                        form[3], form[4], form[5])])
        /\ last' = [op |-> "api_vote", ret |-> "running"]
        /\ UNCHANGED <<store, problem_map, problems_by_type, disk, stale>>

ApiVoteOtherThread ==
    \E user_id \in Users, problem_id \in DOMAIN problem_map, form \in ValidVoteInputs :
        \E r \in {upsert_vote(Cur, user_id, problem_id,
                               form[1], form[2], form[3], form[4], form[5])} :
            /\ running # None
            /\ Accept
            /\ Commit(r.D)
            /\ last' = [op |-> "api_vote", ret |-> "success", existing |-> r.existing]
            /\ UNCHANGED running

ApiVoteInsertEnd ==
    /\ running # None
    /\ Commit(upsert_vote_append(Cur, running[1].vote))
    /\ running' = None
    /\ last' = [op |-> "api_vote", ret |-> "success", existing |-> FALSE]
    /\ UNCHANGED requests

NextInserts ==
    \/ AdminCreateProblem
    \/ ApiVote
    \/ ApiDeleteVote
    \/ ApiVoteInsertBegin
    \/ ApiVoteOtherThread
    \/ ApiVoteInsertEnd

SpecInserts == Init /\ [][NextInserts]_vars

---------------------------------------------------------------------------
(* The construction of the data store over a file whose reports were       *)
(* persisted by any earlier version or edited by hand: up to MaxReports    *)
(* reports on vote 1, whose ids may be missing (0) or repeated and whose   *)
(* reporter may be missing, next to any next_report_id.                    *)

MaxReports == 2

PersistedReports ==
    [id : 0..2, vote_id : {1}, user_id : {None, Some(1), Some(2)}, target_user_id : {None}]

PersistedReportLists ==
    UNION {[1..n -> PersistedReports] : n \in 0..MaxReports}

InitReports ==
    \E reports \in PersistedReportLists, next_report_id \in 1..3 :
        /\ store = EmptyStore.store
        /\ problem_map = EmptyStore.problem_map
        /\ problems_by_type = EmptyStore.problems_by_type
        /\ disk = Written([DEFAULT_STORE_PAYLOAD EXCEPT
                              !.votes = <<LegacyVote(1, 1, <<1800, 2000, None, "", FALSE>>, FALSE)>>,
                              !.next_vote_id = 2,
                              !.next_problem_id = 2,
                              !.custom_problems = <<LegacyProblem>>,
                              !.reports = reports,
                              !.next_report_id = next_report_id])
        /\ stale = TRUE
        /\ last = [op |-> "init", ret |-> "file"]
        /\ requests = 0
        /\ running = None

\* DataStore(): __init__ calls _load_store.
LoadStore ==
    /\ last.op = "init"
    /\ Commit(load_store(Cur))
    /\ last' = [op |-> "_load_store", ret |-> "success"]
    /\ UNCHANGED <<requests, running>>

NextReports == LoadStore

SpecReports == InitReports /\ [][NextReports]_vars

---------------------------------------------------------------------------
(* Properties.                                                             *)

\* The values of one metric over the non-deleted votes of a problem.
MetricValues(votes, problem_id, m) ==
    LET present == SelectSeq(votes, LAMBDA vote : /\ vote.problem_id = problem_id
                                                  /\ ~vote.deleted
                                                  /\ vote[m] # None)
    IN  [i \in 1..Len(present) |-> present[i][m][1]]

MeanOf(values) ==
    IF values = <<>> THEN None ELSE Some(<<SumSeq(values), Len(values)>>)

\* Count, sums, mean and stddev of every problem and metric (the medians aside).
Aggregates(pm) ==
    [pid \in DOMAIN pm |->
        [cnt |-> pm[pid].cnt, avg |-> pm[pid].avg, sd |-> pm[pid].sd, stats |-> pm[pid].stats]]

LedgerIds(votes) == {votes[i].id : i \in 1..Len(votes)}

RowOf(votes, user_id, problem_id) ==
    votes[Min({i \in 1..Len(votes) :
                  votes[i].user_id = user_id /\ votes[i].problem_id = problem_id})]

\* A form whose ratings or quality lie outside the accepted ranges.
OutOfBounds(form) ==
    \/ form[1] < 800 \/ form[1] > 3500
    \/ form[2] < 800 \/ form[2] > 3500
    \/ (form[3] # None /\ (form[3][1] < -5 \/ form[3][1] > 5))

\* C1: after every operation, for every problem and metric, the published count
\* is the number of non-deleted votes of the problem with a value for the metric
\* and the published mean is the arithmetic mean of those values (null if none).
C1_CountAndMean ==
    \A pid \in DOMAIN problem_map, m \in Metrics :
        LET values == MetricValues(store.votes, pid, m)
        IN  /\ problem_map[pid].cnt[m] = Len(values)
            /\ OptFracEq(problem_map[pid].avg[m], MeanOf(values))

\* C1 witness: a vote was deleted and the problem still has a rated vote.
C1_Witness ==
    /\ last.op = "api_delete_vote" /\ last.ret = "success"
    /\ \E pid \in DOMAIN problem_map :
           problem_map[pid].cnt["overall"] = 1 /\ problem_map[pid].cnt["quality"] = 1

\* C2: after every vote mutation each median of a problem is the standard median
\* of the metric's values over the votes that remain non-deleted, null if none.
C2_Medians ==
    \A pid \in DOMAIN problem_map, m \in Metrics :
        OptFracEq(problem_map[pid].median[m], median(MetricValues(store.votes, pid, m)))

OnePerPair(votes) ==
    \A i, j \in 1..Len(votes) :
        (i # j /\ ~votes[i].deleted /\ ~votes[j].deleted)
            => ~(votes[i].user_id = votes[j].user_id /\ votes[i].problem_id = votes[j].problem_id)

\* C3: there is at most one non-deleted vote per (user, problem) pair, and an
\* UpsertVote for a pair that has a row updates that row and adds none.
C3_OneVotePerPair ==
    [][/\ OnePerPair(store'.votes)
       /\ \A user_id \in Users, problem_id \in ProblemIds, form \in ValidVoteInputs :
              (/\ api_vote(user_id, problem_id, form[1], form[2], form[3], form[4], form[5])
               /\ problem_id \in DOMAIN problem_map
               /\ HasRow(store.votes, user_id, problem_id))
              => /\ Len(store'.votes) = Len(store.votes)
                 /\ store'.next_vote_id = store.next_vote_id
                 /\ \A i \in 1..Len(store.votes) :
                        /\ store'.votes[i].id = store.votes[i].id
                        /\ store'.votes[i].user_id = store.votes[i].user_id
                        /\ store'.votes[i].problem_id = store.votes[i].problem_id]_vars

\* C3 witness: an UpsertVote updated an existing row while two users have a vote.
C3_Witness ==
    /\ last.op = "api_vote" /\ last.ret = "success" /\ last.existing
    /\ Len(store.votes) = 2

\* The contribution of an optional value to a count and to a sum.
Present(x) == IF x = None THEN 0 ELSE 1
ValueOf(x) == IF x = None THEN 0 ELSE x[1]

\* C4 as stated: when a user who has a vote on a problem upserts again, no
\* metric's count exceeds the count it had before.
C4_CountNeverRises ==
    [][\A user_id \in Users, problem_id \in ProblemIds, form \in ValidVoteInputs :
          (/\ api_vote(user_id, problem_id, form[1], form[2], form[3], form[4], form[5])
           /\ problem_id \in DOMAIN problem_map
           /\ HasRow(store.votes, user_id, problem_id))
          => \A m \in Metrics :
                problem_map'[problem_id].cnt[m] <= problem_map[problem_id].cnt[m]]_vars

\* C4 amended: on such an upsert each metric's count changes by exactly the
\* presence of the new value minus the presence of the old one (so thinking,
\* implementation and overall keep their count and quality moves by at most
\* one), and the sums lose the old values of the vote and gain the new ones.
C4_OneContributionPerUser ==
    [][\A user_id \in Users, problem_id \in ProblemIds, form \in ValidVoteInputs :
          (/\ api_vote(user_id, problem_id, form[1], form[2], form[3], form[4], form[5])
           /\ problem_id \in DOMAIN problem_map
           /\ HasRow(store.votes, user_id, problem_id))
          => LET old == RowOf(store.votes, user_id, problem_id)
                 new == RowOf(store'.votes, user_id, problem_id)
                 before == problem_map[problem_id]
                 after == problem_map'[problem_id]
             IN  /\ new.thinking = Some(form[1])
                 /\ new.implementation = Some(form[2])
                 /\ new.quality = form[3]
                 /\ \A m \in Metrics :
                        /\ after.cnt[m] = before.cnt[m] - Present(old[m]) + Present(new[m])
                        /\ after.stats[m].count = after.cnt[m]
                        /\ after.stats[m].sum =
                               before.stats[m].sum - ValueOf(old[m]) + ValueOf(new[m])
                        /\ after.stats[m].sum_sq =
                               before.stats[m].sum_sq - ValueOf(old[m]) * ValueOf(old[m])
                                   + ValueOf(new[m]) * ValueOf(new[m])
                 /\ after.cnt["thinking"] = before.cnt["thinking"]
                 /\ after.cnt["implementation"] = before.cnt["implementation"]
                 /\ after.cnt["overall"] = before.cnt["overall"]]_vars

\* C4 witness: an upsert replaced a vote without quality by one with quality
\* on a problem that another user has rated too.
C4_Witness ==
    /\ last.op = "api_vote" /\ last.ret = "success" /\ last.existing
    /\ \E pid \in DOMAIN problem_map :
           problem_map[pid].cnt["thinking"] = 2 /\ problem_map[pid].cnt["quality"] = 2

\* C5: a DeleteVote that repeats a DeleteVote of the same id, or that names an
\* id assigned earlier and no longer in the ledger, changes no count, sum, sum
\* of squares, mean or stddev.
C5_DeleteTwice ==
    [][\A vote_id \in VoteIds :
          (/\ api_delete_vote(vote_id)
           /\ \/ (last.op = "api_delete_vote" /\ last.ret = "success"
                     /\ last.vote_id = vote_id)
              \/ (vote_id < store.next_vote_id /\ vote_id \notin LedgerIds(store.votes)))
          => Aggregates(problem_map') = Aggregates(problem_map)]_vars

\* C5 witness: the second of two DeleteVote calls with the same id has returned
\* while another vote still contributes to the aggregates.
C5_Witness ==
    /\ last.op = "api_delete_vote" /\ last.ret = "Vote not found" /\ last.again
    /\ \E pid \in DOMAIN problem_map : problem_map[pid].cnt["overall"] = 1

\* C6: DeleteVote succeeds exactly when it removes a non-deleted vote; it
\* reports failure for an absent id and for a row whose deleted flag is set.
C6_DeleteResult ==
    [][\A vote_id \in VoteIds :
          api_delete_vote(vote_id)
          => (last'.ret = "success"
                <=> \E i \in 1..Len(store.votes) :
                        store.votes[i].id = vote_id /\ ~store.votes[i].deleted)]_vars

\* C7: every report refers to a vote that is in the ledger.
C7_NoOrphanReport ==
    \A k \in 1..Len(store.reports) : store.reports[k].vote_id \in LedgerIds(store.votes)

\* C7 witness: a reported vote went away with its problem, and its report with it.
C7_Witness ==
    /\ store.next_report_id > 1
    /\ store.next_vote_id > 1
    /\ store.votes = <<>>
    /\ store.reports = <<>>
    /\ store.next_problem_id > 1
    /\ DOMAIN problem_map = {}

UniqueReportPairs(reports) ==
    \A j, k \in 1..Len(reports) :
        (reports[j].vote_id = reports[k].vote_id /\ reports[j].user_id = reports[k].user_id)
            => j = k

\* C8: a ReportVote for a (vote, reporter) pair that has a report answers
\* "Already reported" and adds nothing, and no pair ever has two reports.
C8_NoDuplicateReport ==
    [][/\ UniqueReportPairs(store'.reports)
       /\ \A vote_id \in VoteIds, user_id \in Users :
              (/\ api_report_vote(vote_id, user_id)
               /\ \E k \in 1..Len(store.reports) :
                      /\ store.reports[k].vote_id = vote_id
                      /\ store.reports[k].user_id = Some(user_id))
              => /\ last'.ret = "Already reported"
                 /\ store'.reports = store.reports
                 /\ store'.next_report_id = store.next_report_id]_vars

\* C8 witness: a repeated report was refused and the one report is still there.
C8_Witness ==
    /\ last.op = "api_report_vote" /\ last.ret = "Already reported"
    /\ Len(store.reports) = 1

\* C9: a ReportVote on an id that is absent from the ledger or whose row is
\* marked deleted answers "Vote not found" and leaves the reports and
\* next_report_id as they were.
C9_ReportMissingVote ==
    [][\A vote_id \in VoteIds, user_id \in Users :
          (/\ api_report_vote(vote_id, user_id)
           /\ \/ vote_id \notin LedgerIds(store.votes)
              \/ \E i \in 1..Len(store.votes) :
                     store.votes[i].id = vote_id /\ store.votes[i].deleted)
          => /\ last'.ret = "Vote not found"
             /\ store'.reports = store.reports
             /\ store'.next_report_id = store.next_report_id]_vars

\* C9 witness: a report was refused in a ledger that holds two rows, both of
\* them marked deleted.
C9_Witness ==
    /\ last.op = "api_report_vote" /\ last.ret = "Vote not found"
    /\ Len(store.votes) = 2
    /\ \A i \in 1..Len(store.votes) : store.votes[i].deleted

\* C10: an UpsertVote whose thinking or implementation lies outside [800,3500]
\* or whose quality lies outside [-5,5] is refused and changes neither the
\* votes, nor next_vote_id, nor any aggregate block.
C10_ValidationFirst ==
    [][\A user_id \in Users, problem_id \in ProblemIds, form \in VoteInputs :
          (/\ api_vote(user_id, problem_id, form[1], form[2], form[3], form[4], form[5])
           /\ OutOfBounds(form))
          => /\ last'.ret = "Out of range"
             /\ store' = store
             /\ problem_map' = problem_map
             /\ disk' = disk]_vars

\* C10 witness: a form was refused as out of range while the ledger holds a vote.
C10_Witness ==
    /\ last.op = "api_vote" /\ last.ret = "Out of range"
    /\ store.votes # <<>>
    /\ \E pid \in DOMAIN problem_map : problem_map[pid].cnt["overall"] > 0

\* The rows of the ledger on one problem.
ProblemRows(votes, problem_id) ==
    SelectSeq(votes, LAMBDA vote : vote.problem_id = problem_id)

\* The published overall block of a problem: count n, mean f, and a standard
\* deviation that is zero (spread = FALSE) or positive (spread = TRUE).
OverallIs(problem, n, f, spread) ==
    /\ problem.cnt["overall"] = n
    /\ problem.avg["overall"] # None /\ FracEq(problem.avg["overall"][1], f)
    /\ problem.sd["overall"] # None
    /\ (problem.sd["overall"][1][1] > 0) = spread

\* C11: on a problem without votes, after user A upserts (1800, 2000) the
\* overall block has count 1, mean A's overall and stddev 0; after user B then
\* upserts (2000, 2000) it has count 2, the mean of the two overalls and a
\* positive stddev; after A's vote is then deleted it has count 1, mean B's
\* overall and stddev 0.
C11_Scenario ==
    [][\A problem_id \in DOMAIN problem_map :
          LET rows == ProblemRows(store.votes, problem_id)
              rows_after == ProblemRows(store'.votes, problem_id)
              after == problem_map'[problem_id]
          IN  /\ \A A \in Users, quality \in {None, Some(5)},
                        comment \in {"", "neat"}, make_public \in BOOLEAN :
                     (/\ rows = <<>>
                      /\ api_vote(A, problem_id, 1800, 2000, quality, comment, make_public))
                     => /\ Len(rows_after) = 1
                        /\ OverallIs(after, 1, <<rows_after[1].overall[1], 1>>, FALSE)
              /\ \A B \in Users, quality \in {None, Some(5)},
                        comment \in {"", "neat"}, make_public \in BOOLEAN :
                     (/\ Len(rows) = 1 /\ ~rows[1].deleted /\ rows[1].user_id # B
                      /\ rows[1].thinking = Some(1800) /\ rows[1].implementation = Some(2000)
                      /\ api_vote(B, problem_id, 2000, 2000, quality, comment, make_public))
                     => /\ Len(rows_after) = 2
                        /\ OverallIs(after, 2,
                                     <<rows_after[1].overall[1] + rows_after[2].overall[1], 2>>,
                                     TRUE)
              /\ (/\ Len(rows) = 2 /\ ~rows[1].deleted /\ ~rows[2].deleted
                  /\ rows[1].thinking = Some(1800) /\ rows[1].implementation = Some(2000)
                  /\ rows[2].thinking = Some(2000) /\ rows[2].implementation = Some(2000)
                  /\ api_delete_vote(rows[1].id))
                 => /\ rows_after = <<rows[2]>>
                    /\ OverallIs(after, 1, <<rows[2].overall[1], 1>>, FALSE)]_vars

\* C11 witness: the scenario has run to its end: A's vote, the first of the
\* ledger, was deleted and B's (2000, 2000) is the one vote left.
C11_Witness ==
    /\ last.op = "api_delete_vote" /\ last.ret = "success" /\ last.vote_id = 1
    /\ Len(store.votes) = 1
    /\ store.votes[1].id = 2
    /\ store.votes[1].thinking = Some(2000) /\ store.votes[1].implementation = Some(2000)
    /\ problem_map[store.votes[1].problem_id].cnt["overall"] = 1

\* C12: when _ensure_store_fresh finds a newer, completely written file and
\* reloads it, the ledger is the file's, no vote id occurs twice in it, and for
\* every problem and metric the count is the number of non-deleted votes of the
\* reloaded snapshot with a value for the metric, whatever the process held
\* before.
C12_ReloadMatchesFile ==
    [][(stale /\ disk.written /\ last'.op = "find_vote_by_id")
       => /\ store'.votes = disk.payload.votes
          /\ DOMAIN problem_map' = DOMAIN disk.payload.custom_problems
          /\ \A i, j \in 1..Len(store'.votes) :
                 store'.votes[i].id = store'.votes[j].id => i = j
          /\ \A pid \in DOMAIN problem_map', m \in Metrics :
                 problem_map'[pid].cnt[m] = Len(MetricValues(disk.payload.votes, pid, m))]_vars

\* C13: once another process has completed a write of the file, a read in this
\* process returns what the file holds: /api/votes lists the non-deleted votes
\* the file has on the problem, and find_vote_by_id returns the file's row.
C13_ReadsAreFresh ==
    /\ (last.op = "api_votes" /\ disk.written
            /\ last.problem_id \in DOMAIN disk.payload.custom_problems)
       => /\ last.ret = "success"
          /\ last.votes = SelectSeq(disk.payload.votes,
                                    LAMBDA vote : /\ vote.problem_id = last.problem_id
                                                  /\ ~vote.deleted)
    /\ (last.op = "find_vote_by_id" /\ disk.written)
       => last.ret = LET rows == SelectSeq(disk.payload.votes,
                                           LAMBDA vote : vote.id = last.vote_id)
                     IN  IF rows = <<>> THEN None ELSE Some(rows[1])

\* C14: a process that reads the file while another process's save is in
\* progress finds a whole document: each time _ensure_store_fresh reloads, the
\* file holds a complete snapshot, the reload leaves the file as it is, and the
\* ledger and the custom problems this process holds afterwards are that
\* snapshot's.
C14_SaveIsAtomic ==
    [][(stale /\ last'.op = "find_vote_by_id")
       => /\ disk.written
          /\ disk' = disk
          /\ store'.votes = disk.payload.votes
          /\ DOMAIN problem_map' = DOMAIN disk.payload.custom_problems]_vars

\* C15: in a single process, when a ledger operation (UpsertVote, DeleteVote,
\* DeleteVotesForUser, DeleteVotesBulk, ReportVote) has returned, the file
\* holds a whole snapshot whose votes, reports and id counters are those in
\* memory.
C15_Persisted ==
    last.op \in {"api_vote", "api_delete_vote", "api_report_vote", "admin"}
        => /\ disk.written
           /\ disk.payload.votes = store.votes
           /\ disk.payload.reports = store.reports
           /\ disk.payload.next_vote_id = store.next_vote_id
           /\ disk.payload.next_report_id = store.next_report_id
           /\ disk.payload.next_problem_id = store.next_problem_id

\* C15 witness: a report was filed and saved while the ledger holds two votes.
C15_Witness ==
    /\ last.op = "api_report_vote" /\ last.ret = "None"
    /\ Len(store.votes) = 2
    /\ Len(store.reports) = 1
    /\ disk.payload.reports = store.reports

\* C16: a reader never observes a torn update: the means /api/votes takes its
\* deltas from are the means of the votes it lists in the same response, for
\* every metric, whatever other request is running in the process.
C16_NoTornRead ==
    (last.op = "api_votes" /\ last.ret = "success")
        => \A m \in Metrics :
               OptFracEq(last.avg[m], MeanOf(MetricValues(last.votes, last.problem_id, m)))

\* C17: an ImportLegacy that repeats the import served just before it, with the
\* same source data, adds no user, no problem and no vote, and reports
\* usersCreated = 0, problemsCreated = 0 and votesImported = 0.
C17_ImportIdempotent ==
    [][(last'.op = "admin_import_legacy" /\ last'.again)
       => /\ store'.users = store.users
          /\ store'.next_user_id = store.next_user_id
          /\ DOMAIN problem_map' = DOMAIN problem_map
          /\ store'.next_problem_id = store.next_problem_id
          /\ LedgerIds(store'.votes) = LedgerIds(store.votes)
          /\ Len(store'.votes) = Len(store.votes)
          /\ store'.next_vote_id = store.next_vote_id
          /\ last'.summary.users_created = 0
          /\ last'.summary.problems_created = 0
          /\ last'.summary.votes_imported = 0]_vars

\* C17 witness: an import was repeated over a ledger that holds the two users,
\* the problem and the two votes of the files.
C17_Witness ==
    /\ last.op = "admin_import_legacy" /\ last.again
    /\ Len(store.users) = 2
    /\ Len(store.votes) = 2
    /\ DOMAIN problem_map # {}
    /\ last.summary.votes_updated = 2

\* C18: when ImportLegacy returns, for every problem and metric the count is
\* the number of non-deleted votes of the problem with a value for the metric
\* and the mean is their arithmetic mean.
C18_ImportedAggregates ==
    (last.op = "admin_import_legacy")
        => \A pid \in DOMAIN problem_map, m \in Metrics :
               LET values == MetricValues(store.votes, pid, m)
               IN  /\ problem_map[pid].cnt[m] = Len(values)
                   /\ OptFracEq(problem_map[pid].avg[m], MeanOf(values))

\* C19: every vote of the ledger, each written by upsert_vote from a form that
\* carries thinking, implementation and quality only, stores as overall, and as
\* its mirror difficulty, the solver's result for the thinking and the
\* implementation it stores.
C19_OverallIsComputed ==
    \A i \in 1..Len(store.votes) :
        LET vote == store.votes[i]
        IN  /\ vote.thinking # None /\ vote.implementation # None
            /\ vote.overall = Some(calc_overall(vote.thinking[1], vote.implementation[1]))
            /\ vote.difficulty = vote.overall

\* C19 witness: a vote was edited, and the only row of the ledger stores the
\* ratings 2000 and 2000 with the overall computed from them.
C19_Witness ==
    /\ last.op = "api_vote" /\ last.ret = "success" /\ last.existing
    /\ Len(store.votes) = 1
    /\ store.votes[1].thinking = Some(2000)
    /\ store.votes[1].overall = Some(calc_overall(2000, 2000))
    /\ store.votes[1].difficulty = Some(calc_overall(2000, 2000))

\* C20 as stated: the solver's result for two equal ratings x is x, within the
\* resolution of the solver.
C20_EqualInputsFixed ==
    (last.op = "_calc_overall" /\ last.thinking = last.implementation)
        => /\ last.ret - last.thinking <= eps
           /\ last.thinking - last.ret <= eps

\* C20 amended: the solver's result for two equal ratings x is the rating that
\* beats x with probability 1/sqrt(2), x + 400 * log10(1 + sqrt(2)) = x + 153.1,
\* within the resolution of the solver; for 1500 and 1500 it is 1653.
C20_EqualInputsOffset ==
    (last.op = "_calc_overall" /\ last.thinking = last.implementation)
        => /\ last.ret - last.thinking >= 153 - eps
           /\ last.ret - last.thinking <= 153 + eps

\* C20 witness: the solver was applied to 1500 and 1500 and returned 1653.
C20_Witness ==
    /\ last.op = "_calc_overall"
    /\ last.thinking = 1500 /\ last.implementation = 1500
    /\ last.ret = 1653

\* C21: the solver's result does not decrease when one of its two arguments
\* is raised and the other is kept: for the pair it was applied to, every
\* higher thinking with the same implementation, and every higher
\* implementation with the same thinking, gives a result at least as high.
C21_Monotone ==
    (last.op = "_calc_overall")
        => /\ \A thinking \in SolverRatings :
                  thinking >= last.thinking
                      => calc_overall(thinking, last.implementation) >= last.ret
           /\ \A implementation \in SolverRatings :
                  implementation >= last.implementation
                      => calc_overall(last.thinking, implementation) >= last.ret

\* C21 witness: the solver was applied to 1500 and 2000, and raising either
\* argument to a higher rating raises the result.
C21_Witness ==
    /\ last.op = "_calc_overall"
    /\ last.thinking = 1500 /\ last.implementation = 2000
    /\ calc_overall(1800, 2000) > last.ret
    /\ calc_overall(1500, 2200) > last.ret

\* The product of the two win probabilities of a rating, as the solver
\* evaluates it, is greater than one half.
Favoured(x, thinking, implementation) ==
    elo_win_probability(x, thinking) * elo_win_probability(x, implementation)
        > (SCALE * SCALE) \div 2

\* C22: for ratings in [800, 3500] the bisection ends with a lower bound x in
\* [1, 8000] at which the product of the two win probabilities is at most one
\* half, while it is greater than one half one tolerance above x.
C22_Bracket ==
    (last.op = "_calc_overall")
        => /\ last.ret >= 1 /\ last.ret <= 8000
           /\ ~Favoured(last.ret, last.thinking, last.implementation)
           /\ Favoured(last.ret + eps, last.thinking, last.implementation)

\* C22 witness: the solver was applied to 2000 and 1500 and returned a rating
\* above the higher of the two and below its result for 2000 and 2000.
C22_Witness ==
    /\ last.op = "_calc_overall"
    /\ last.thinking = 2000 /\ last.implementation = 1500
    /\ last.ret > 2000 /\ last.ret < 2153

\* Whether a vote is one that the batch removal served last was asked to remove.
Matching(request, vote) ==
    IF request.user_id # None THEN vote.user_id = request.user_id[1]
    ELSE vote.id \in request.vote_ids

C24_VotesInBounds ==
    \A i \in 1..Len(store.votes) :
        LET vote == store.votes[i]
        IN  ~vote.deleted
                => /\ vote.thinking # None /\ vote.implementation # None
                   /\ InRange(vote.thinking[1], vote.implementation[1], vote.quality)

\* C25: the count of an aggregate block is never negative, and a block whose
\* count is zero has sum and sum of squares exactly zero while the problem
\* publishes count 0 with null mean and null stddev for the metric.
C25_FloorAtZero ==
    \A pid \in DOMAIN problem_map, m \in Metrics :
        LET block == problem_map[pid].stats[m]
        IN  /\ block.count >= 0
            /\ block.count = 0
                   => /\ block.sum = 0 /\ block.sum_sq = 0
                      /\ problem_map[pid].cnt[m] = 0
                      /\ problem_map[pid].avg[m] = None
                      /\ problem_map[pid].sd[m] = None

\* C25 witness: the ledger was loaded with a row whose deleted flag is set and
\* which is in no block; the only counted vote was then removed and the flagged
\* row voted on again, so that its reversal met a count of zero.
C25_Witness ==
    /\ last.op = "api_vote" /\ last.ret = "success" /\ last.existing
    /\ Len(store.votes) = 1
    /\ problem_map[store.votes[1].problem_id].stats["overall"].count = 1
    /\ problem_map[store.votes[1].problem_id].stats["thinking"].sum = store.votes[1].thinking[1]

\* C26: within a process the vote id counter never goes down, every vote that
\* enters the ledger carries the counter's value of that moment, which lies
\* above every id given out before, and no two votes of the ledger share an id.
C26_VoteIdsMonotone ==
    [][/\ store'.next_vote_id >= store.next_vote_id
       /\ \A i \in 1..Len(store.votes) : store.votes[i].id < store.next_vote_id
       /\ \A id \in LedgerIds(store'.votes) \ LedgerIds(store.votes) :
              id >= store.next_vote_id /\ id < store'.next_vote_id
       /\ \A i, k \in 1..Len(store'.votes) :
              store'.votes[i].id = store'.votes[k].id => i = k]_vars

\* C26 witness: the first vote was deleted, and the vote inserted after it
\* has the id 2.
C26_Witness ==
    /\ last.op = "api_vote" /\ last.ret = "success" /\ ~last.existing
    /\ Len(store.votes) = 1
    /\ store.votes[1].id = 2
    /\ store.next_vote_id = 3

\* C27: when the snapshot write of UpsertVote, DeleteVote or ReportVote fails,
\* the caller is answered with an error, and in the memory of the process
\* every count is the number of non-deleted votes with a value, every mean is
\* their mean, no two rows are of one user and problem, and every report is on
\* a vote of the ledger; and a caller is answered with success only when the
\* file holds the ledger and the reports of the memory.
C27_WriteFailure ==
    /\ (last.ret = "Internal Server Error")
           => /\ \A pid \in DOMAIN problem_map, m \in Metrics :
                     LET values == MetricValues(store.votes, pid, m)
                     IN  /\ problem_map[pid].stats[m].count = Len(values)
                         /\ problem_map[pid].cnt[m] = Len(values)
                         /\ OptFracEq(problem_map[pid].avg[m], MeanOf(values))
              /\ \A i, k \in 1..Len(store.votes) :
                     (/\ store.votes[i].user_id = store.votes[k].user_id
                      /\ store.votes[i].problem_id = store.votes[k].problem_id) => i = k
              /\ \A k \in 1..Len(store.reports) :
                     store.reports[k].vote_id \in LedgerIds(store.votes)
    /\ (/\ last.op \in {"api_vote", "api_delete_vote", "api_report_vote"}
        /\ last.ret \in {"success", "None"})
           => /\ disk.written
              /\ disk.payload.votes = store.votes
              /\ disk.payload.reports = store.reports

\* C27 witness: the write of a DeleteVote failed after it had truncated the
\* file; the vote is out of the ledger and out of the blocks of its problem.
C27_Witness ==
    /\ last.op = "api_delete_vote" /\ last.ret = "Internal Server Error"
    /\ ~disk.written
    /\ store.votes = <<>>
    /\ \E pid \in DOMAIN problem_map : problem_map[pid].stats["overall"].count = 0

\* C28: when UpsertVote succeeds over a row of the user and problem whose
\* deleted flag is set, nothing is subtracted for that row: each metric for
\* which the new vote has a value has a count exactly one above its count
\* before.
C28_NoReversalOfDeleted ==
    [][(last'.op = "api_vote" /\ last'.ret = "success")
       => \A i \in 1..Len(store.votes) :
              (/\ store.votes[i].deleted
               /\ i <= Len(store'.votes)
               /\ store'.votes[i].id = store.votes[i].id
               /\ ~store'.votes[i].deleted)
                  => \A m \in Metrics :
                         store'.votes[i][m] # None
                             => /\ problem_map'[store.votes[i].problem_id].stats[m].count
                                       = problem_map[store.votes[i].problem_id].stats[m].count + 1
                                /\ problem_map'[store.votes[i].problem_id].cnt[m]
                                       = problem_map[store.votes[i].problem_id].cnt[m] + 1]_vars

\* C29: a read that begins with _ensure_store_fresh loads the file when, and
\* only when, the file is newer than the modification time the process has
\* recorded: then the ledger of the memory becomes that of the file (the empty
\* one if the file is torn); otherwise the store, the catalog and all its
\* aggregates are left as they were.  After a successful vote, delete or
\* report of this process the file is not newer.
C29_ReloadIffNewer ==
    [][/\ (last'.op = "find_vote_by_id")
              => IF stale
                 THEN /\ store'.votes = IF disk.written THEN disk.payload.votes ELSE <<>>
                      /\ \A pid \in DOMAIN store'.custom_problems :
                             store'.custom_problems[pid] # None
                      /\ ~stale'
                 ELSE /\ store' = store
                      /\ problem_map' = problem_map
                      /\ problems_by_type' = problems_by_type
                      /\ disk' = disk
       /\ (/\ last'.op \in {"api_vote", "api_delete_vote", "api_report_vote"}
           /\ last'.ret \in {"success", "None"})
              => ~stale']_vars

\* C29 witness: a read found the file newer and loaded it: the custom problem
\* of the memory is the copy read from the file, and the ledger holds the vote
\* the file holds.
C29_Witness ==
    /\ last.op = "find_vote_by_id" /\ last.ret # None
    /\ ~stale
    /\ \E pid \in DOMAIN store.custom_problems : store.custom_problems[pid] # None
    /\ disk.written /\ store.votes = disk.payload.votes

\* C30: a problem loaded from a file that persists a count below zero for a
\* metric has, for that metric, a block that counts from zero: with no vote
\* in the ledger its count, sum and sum of squares are 0, and with one vote
\* added its count is 1 and its sum and mean are the value of that vote.
C30_NegativeCountIsZero ==
    \A pid \in DOMAIN problem_map, m \in Metrics :
        (/\ disk.written
         /\ pid \in DOMAIN disk.payload.custom_problems
         /\ disk.payload.custom_problems[pid].cnt[m] < 0)
            => LET block == problem_map[pid].stats[m]
                   values == MetricValues(store.votes, pid, m)
               IN  /\ block.count = Len(values)
                   /\ block.sum = SumSeq(values)
                   /\ values = <<>> => block.sum_sq = 0 /\ problem_map[pid].cnt[m] = 0
                   /\ OptFracEq(problem_map[pid].avg[m], MeanOf(values))

\* C30 witness: one vote was added to a problem whose file persists the count
\* -2; the block counts 1 and its mean is 1800, the thinking of the vote.
C30_Witness ==
    /\ last.op = "api_vote" /\ last.ret = "success"
    /\ disk.written
    /\ 1 \in DOMAIN disk.payload.custom_problems
    /\ disk.payload.custom_problems[1].cnt["thinking"] = -2
    /\ problem_map[1].stats["thinking"] = [count |-> 1, sum |-> 1800, sum_sq |-> 1800 * 1800]
    /\ problem_map[1].avg["thinking"] = Some(<<1800, 1>>)

\* C31: an upsert_vote that finds a row of the user on the problem writes the
\* ratings, the comment and the visibility of the form into that row and sets
\* its updated_at to the time of the request; the row keeps its id, user_id,
\* problem_id and created_at, and next_vote_id, every other row of the ledger
\* and the reports are as they were.
C31_UpdateInPlace ==
    [][\A user_id \in Users, problem_id \in DOMAIN problem_map, form \in ValidVoteInputs :
          (/\ HasRow(store.votes, user_id, problem_id)
           /\ api_vote(user_id, problem_id, form[1], form[2], form[3], form[4], form[5]))
          => LET i == Min({k \in 1..Len(store.votes) :
                              /\ store.votes[k].user_id = user_id
                              /\ store.votes[k].problem_id = problem_id})
                 old == store.votes[i]
                 new == store'.votes[i]
             IN  /\ Len(store'.votes) = Len(store.votes)
                 /\ new.thinking = Some(form[1])
                 /\ new.implementation = Some(form[2])
                 /\ new.overall = Some(calc_overall(form[1], form[2]))
                 /\ new.quality = form[3]
                 /\ new.comment = form[4]
                 /\ new.public = form[5]
                 /\ new.updated_at = Cur.now
                 /\ new.id = old.id
                 /\ new.user_id = old.user_id
                 /\ new.problem_id = old.problem_id
                 /\ new.created_at = old.created_at
                 /\ store'.next_vote_id = store.next_vote_id
                 /\ \A k \in 1..Len(store.votes) : k # i => store'.votes[k] = store.votes[k]
                 /\ store'.reports = store.reports]_vars

\* C31 witness: of the two votes of the ledger, one of them reported, one was
\* edited after the request that created it and carries the comment and the
\* visibility of the later form.
C31_Witness ==
    /\ last.op = "api_vote" /\ last.ret = "success" /\ last.existing
    /\ Len(store.votes) = 2
    /\ store.reports # <<>>
    /\ \E i \in 1..2 :
           /\ store.votes[i].updated_at = requests
           /\ store.votes[i].created_at < requests
           /\ store.votes[i].comment = "neat"
           /\ store.votes[i].public

\* C32: list_votes_for_problem changes neither the ledger, the aggregates nor
\* the snapshot file, and the rows it returns are copies: after the caller has
\* overwritten the comment of every returned row, the ledger, the catalog and
\* the file are what they were before the call, while the caller holds every
\* row of the problem, in the order of the ledger, with the comment it wrote.
C32_PureRead ==
    [][(last'.op = "list_votes_for_problem")
       => /\ store' = store
          /\ problem_map' = problem_map
          /\ problems_by_type' = problems_by_type
          /\ disk' = disk
          /\ stale' = stale
          /\ LET rows == SelectSeq(store.votes,
                                   LAMBDA vote : vote.problem_id = last'.problem_id)
             IN  last'.ret = [k \in 1..Len(rows) |-> [rows[k] EXCEPT !.comment = "edited"]]]_vars

\* C32 witness: the caller was given two rows, one of which carried another
\* comment in the ledger, and the ledger still holds that comment.
C32_Witness ==
    /\ last.op = "list_votes_for_problem"
    /\ Len(last.ret) = 2
    /\ \E i \in 1..Len(store.votes) : store.votes[i].comment = "neat"

\* C33: the report that report_vote appends carries, as target_user_id, the
\* user_id the reported vote has at that moment, and a report that is in the
\* store before and after a step is the same after it as before, whatever the
\* step did to the vote.
C33_OwnerCaptured ==
    [][/\ \A vote_id \in VoteIds, user_id \in Users :
              (/\ api_report_vote(vote_id, user_id)
               /\ last'.ret = "None")
              => /\ Len(store'.reports) = Len(store.reports) + 1
                 /\ \E i \in 1..Len(store.votes) :
                        /\ store.votes[i].id = vote_id
                        /\ store'.reports[Len(store'.reports)].vote_id = vote_id
                        /\ store'.reports[Len(store'.reports)].user_id = Some(user_id)
                        /\ store'.reports[Len(store'.reports)].target_user_id
                               = Some(store.votes[i].user_id)
       /\ \A j \in 1..Len(store.reports), k \in 1..Len(store'.reports) :
              store.reports[j].id = store'.reports[k].id
                  => store'.reports[k] = store.reports[j]]_vars

\* C33 witness: a user's vote was reported by the other user and edited
\* afterwards, and the report names the owner, not the reporter.
C33_Witness ==
    /\ last.op = "api_vote" /\ last.ret = "success" /\ last.existing
    /\ \E k \in 1..Len(store.reports), i \in 1..Len(store.votes) :
           /\ store.votes[i].id = store.reports[k].vote_id
           /\ store.votes[i].updated_at = requests
           /\ store.reports[k].target_user_id = Some(store.votes[i].user_id)
           /\ store.reports[k].user_id # store.reports[k].target_user_id

\* C34: a rebuild of the aggregates that follows a rebuild, the ledger being
\* the same, leaves the count, the sum and the sum of squares of every problem
\* and metric as the first rebuild left them.
C34_RebuildIdempotent ==
    [][(last.op = "_rebuild_problem_stats" /\ last'.op = "_rebuild_problem_stats")
       => \A pid \in DOMAIN problem_map, m \in Metrics :
              problem_map'[pid].stats[m] = problem_map[pid].stats[m]]_vars

\* C35: whenever the file is no newer than the modification time this process
\* has recorded, and no operation of the process is in its middle, the ledger
\* the process holds is the ledger of the file: a write of another process
\* is always left to be detected by the next _ensure_store_fresh.
C35_MtimeBelongsToContent ==
    (running = None /\ ~stale /\ disk.written) => store.votes = disk.payload.votes

\* C36: when another process has completed a write of the file and this
\* process then serves a vote or the deletion of a vote, the file it writes
\* still holds every row of the file it found, except the row of the pair it
\* voted on or the row it deleted.
C36_BothWritesKept ==
    [][/\ \A user_id \in Users, problem_id \in DOMAIN problem_map, form \in ValidVoteInputs :
              (/\ stale /\ disk.written
               /\ api_vote(user_id, problem_id, form[1], form[2], form[3], form[4], form[5]))
              => \A i \in 1..Len(disk.payload.votes) :
                     (\/ disk.payload.votes[i].user_id # user_id
                      \/ disk.payload.votes[i].problem_id # problem_id)
                     => \E k \in 1..Len(disk'.payload.votes) :
                            disk'.payload.votes[k] = disk.payload.votes[i]
       /\ \A vote_id \in VoteIds :
              (/\ stale /\ disk.written
               /\ api_delete_vote(vote_id)
               /\ last'.ret = "success")
              => \A i \in 1..Len(disk.payload.votes) :
                     disk.payload.votes[i].id # vote_id
                     => \E k \in 1..Len(disk'.payload.votes) :
                            disk'.payload.votes[k] = disk.payload.votes[i]]_vars

\* C37: a load of the snapshot leaves the file as it is: after a
\* find_vote_by_id whose _ensure_store_fresh reloads, whether the file holds a
\* whole document or is found empty or cut short, the file is what it was.
C37_LoadLeavesFile ==
    [][(stale /\ last'.op = "find_vote_by_id") => disk' = disk]_vars

\* C38: after _load_store, whatever reports and next_report_id the file
\* carried, no two reports of the store have the same id, no two reports with
\* a reporter name the same vote and reporter, and next_report_id is greater
\* than the id of every report.
C38_ReportsNormalised ==
    (last.op = "_load_store")
        => /\ \A i, j \in 1..Len(store.reports) :
                  store.reports[i].id = store.reports[j].id => i = j
           /\ \A i, j \in 1..Len(store.reports) :
                  (/\ store.reports[i].user_id # None
                   /\ store.reports[i].vote_id = store.reports[j].vote_id
                   /\ store.reports[i].user_id = store.reports[j].user_id) => i = j
           /\ \A i \in 1..Len(store.reports) : store.reports[i].id < store.next_report_id

\* C39: with two threads of one process in upsert_vote at the same time, no
\* two votes of the ledger have the same id, no two rows are of the same user
\* on the same problem, and next_vote_id is above the id of every vote.
C39_ConcurrentUpserts ==
    /\ \A i, j \in 1..Len(store.votes) :
           store.votes[i].id = store.votes[j].id => i = j
    /\ \A i, j \in 1..Len(store.votes) :
           (/\ store.votes[i].user_id = store.votes[j].user_id
            /\ store.votes[i].problem_id = store.votes[j].problem_id) => i = j
    /\ \A i \in 1..Len(store.votes) : store.votes[i].id < store.next_vote_id

\* C40: every non-deleted vote of the ledger, each of them counted in the
\* aggregates of its problem, is of a user of the store, and the listing of a
\* problem shows an administrator as many votes as the problem counts: once
\* reject_user has removed a user, the ledger and the aggregates hold no vote
\* of that user.
C40_VotesOfUsers ==
    /\ \A i \in 1..Len(store.votes) :
           ~store.votes[i].deleted => find_user_by_id(Cur, store.votes[i].user_id) # None
    /\ (last.op = "api_votes" /\ last.ret = "success")
           => Len(last.votes) = problem_map[last.problem_id].cnt["thinking"]

====
